---- MODULE Spec2Model ----
(***************************************************************************)
(* Verification model of the dswizard bandit scheduler:                    *)
(*   - the candidate data model (dswizard/core/model.py),                  *)
(*   - the advancement policies (successive halving / resampling),         *)
(*   - the bracket state machine (dswizard/core/base_iteration.py),        *)
(*   - the sampling-engine cache (dswizard/core/config_generator_cache.py),*)
(*   - the master's main loop and callbacks (dswizard/core/master.py).     *)
(*   - the bandit learner's structure generator                            *)
(*     (dswizard/core/base_bandit_learner.py),                             *)
(*   - the run history (dswizard/core/runhistory.py).                      *)
(* The specifications share the state: Spec (one bracket and its callers), *)
(* SpecCache (concurrent get calls), SpecCacheSeq (get calls one after the *)
(* other), SpecMaster (main thread and dispatcher threads), SpecLearner    *)
(* (the learner's brackets pulled by the repetition loop), SpecOptimize    *)
(* (BanditLearner.optimize, with fairness), and SpecId, SpecHistory,       *)
(* SpecMerge, SpecLoad, SpecAdvance (pure functions applied to enumerated  *)
(* inputs).                                                                *)
(***************************************************************************)
EXTENDS Integers, Sequences, FiniteSets, TLC

\* ------------------------------------------------------------------------
\* Bounds and input sets
\* ------------------------------------------------------------------------

\* number of completion callbacks delivered for a candidate that is not
\* outstanding (duplicate / late callbacks), per behaviour
MaxExtra == 1

\* threads calling ConfigGeneratorCache.get
NThreads == 2

\* Master.optimize: repetitions started, candidates pulled per behaviour, and
\* the largest int(candidate.budget), the number of jobs of one candidate
MaxRepetitions == 2
MaxPulls == 1
MaxConfigs == 2

\* CandidateId objects: largest iteration, largest structure and config slot
MaxIteration == 1
MaxSlot == 2

\* RunHistory: latest finish time of a run
MaxTime == 3

\* RunHistory: largest HB_config['time_ref']
MaxTimeRef == 2

\* _advance_to_next_stage: largest number of candidates compared at once
MaxCompared == 3

\* BanditLearner.max_iterations: brackets created per call of
\* _get_next_structure
MaxIterations == 2

\* logged_results_to_runhistory: lines of results.json
MaxLines == 2

\* loss values (in tenths) a finished evaluation may report
Losses == {1, 2, 5, 9}

\* "no candidate" (Python None) and "call raised" markers of a return value
None == 0
Raised == -1

\* ------------------------------------------------------------------------
\* dswizard/core/model.py : CandidateStructure
\* ------------------------------------------------------------------------

\* CandidateStructure.__init__: status QUEUED, empty results.  results is the
\* dict budget -> list of Result, kept as the list of (budget, loss) pairs in
\* append order.
CandidateStructure(budget) ==
    [status |-> "QUEUED", budget |-> budget, results |-> << >>]

\* CandidateStructure.add_result with budget=None: append under self.budget
add_result(cs, loss) ==
    [cs EXCEPT !.results = Append(@, <<cs.budget, loss>>)]

\* the list self.results[budget]; absent key <=> empty set of indices
ResultsAt(cs, budget) ==
    {i \in 1..Len(cs.results) : cs.results[i][1] = budget}

\* CandidateStructure.get_incumbent(budget).loss : minimum loss at budget
\* (KeyError when the budget has no entry: callers test ResultsAt first)
get_incumbent(cs, budget) ==
    LET idx == ResultsAt(cs, budget)
    IN  CHOOSE l \in {cs.results[i][2] : i \in idx} :
            \A i \in idx : l <= cs.results[i][2]

\* ------------------------------------------------------------------------
\* numpy.argsort on a short array (insertion sort: ties keep index order);
\* result is the 1-based index sequence
\* ------------------------------------------------------------------------
argsort(x) ==
    LET n == Len(x)
    IN  IF n = 0 THEN << >>
        ELSE CHOOSE p \in [1..n -> 1..n] :
                /\ \A i, j \in 1..n : i # j => p[i] # p[j]
                /\ \A i, j \in 1..n : i < j =>
                      \/ x[p[i]] < x[p[j]]
                      \/ (x[p[i]] = x[p[j]] /\ p[i] < p[j])

\* np.argsort(np.argsort(losses)) : 0-based rank of every entry
ranks(losses) ==
    LET r == argsort(argsort(losses))
    IN  [i \in 1..Len(losses) |-> r[i] - 1]

\* SuccessiveHalving._advance_to_next_stage: keep the best
\* num_candidates[stage]  (stage is 0-based, sequences are 1-based)
AdvanceSH(b, losses) ==
    LET r == ranks(losses)
    IN  [i \in 1..Len(losses) |-> r[i] < b.num_candidates[b.stage + 1]]

\* mutant of AdvanceSR: the loss itself, not its rank, is compared with the
\* threshold
AdvanceSR_by_value(b, losses) ==
    LET a   == b.min_samples_advance * b.rate_den
        f   == b.num_candidates[b.stage + 1] * (b.rate_den - b.rate_num)
        thr == IF a >= f THEN a ELSE f
    IN  [i \in 1..Len(losses) |-> losses[i] * b.rate_den < thr]

\* mutant of AdvanceSR: the comparison with the threshold is not strict
AdvanceSR_inclusive(b, losses) ==
    LET r   == ranks(losses)
        a   == b.min_samples_advance * b.rate_den
        f   == b.num_candidates[b.stage + 1] * (b.rate_den - b.rate_num)
        thr == IF a >= f THEN a ELSE f
    IN  [i \in 1..Len(losses) |-> r[i] * b.rate_den <= thr]

\* SuccessiveResampling._advance_to_next_stage:
\*   ranks < max(min_samples_advance, num_configs[stage] * (1 - resampling_rate))
\* with resampling_rate = rate_num / rate_den, compared after scaling by rate_den
AdvanceSR(b, losses) ==
    LET r   == ranks(losses)
        a   == b.min_samples_advance * b.rate_den
        f   == b.num_candidates[b.stage + 1] * (b.rate_den - b.rate_num)
        thr == IF a >= f THEN a ELSE f
    IN  [i \in 1..Len(losses) |-> r[i] * b.rate_den < thr]

\* BaseIteration._advance_to_next_stage, dispatched on the bracket's class
advance_to_next_stage(b, losses) ==
    IF b.policy = "SH" THEN AdvanceSH(b, losses) ELSE AdvanceSR(b, losses)

\* ------------------------------------------------------------------------
\* dswizard/core/base_iteration.py : BaseIteration
\*
\* A bracket is a record; cands is the heap of CandidateStructure objects
\* (a sequence, the index is the object's reference).  data is the dict
\* CandidateId -> object: ids are (iteration, k) and the code only ever
\* inserts k = actual_num_candidates[stage] <= len(data), so the keys are
\* 0..len(data)-1 in insertion order and data is kept as the sequence of
\* references, data[k + 1] being the value of key (iteration, k).
\* stage is 0-based as in the code; sequences are 1-based.
\* Every operation returns [b, c, ret, err, log]: the bracket, the heap, the
\* returned value, the exception that left the call and the _finish_stage
\* events of the call.  err is "ok", "RuntimeError", "KeyError",
\* "AssertionError_budget" (line 93) or "AssertionError_status" (line 189).
\* ------------------------------------------------------------------------

\* BaseIteration.__init__ (policy fields: SuccessiveResampling.__init__)
BaseIteration(iteration, num_candidates, budgets, policy, msa, rnum, rden) ==
    [iteration |-> iteration,
     data |-> << >>,
     is_finished |-> FALSE,
     stage |-> 0,
     budgets |-> budgets,
     num_candidates |-> num_candidates,
     actual_num_candidates |-> [i \in 1..Len(num_candidates) |-> 0],
     num_running |-> 0,
     policy |-> policy,
     min_samples_advance |-> msa,
     rate_num |-> rnum,
     rate_den |-> rden]

\* keys of data whose candidate has the given status, as data order (1-based)
KeysWithStatus(b, c, st) ==
    {k \in 1..Len(b.data) : c[b.data[k]].status = st}

\* ascending enumeration of a finite set of integers
RECURSIVE SetToSeq(_)
SetToSeq(S) ==
    IF S = {} THEN << >>
    ELSE LET m == CHOOSE x \in S : \A y \in S : x <= y
         IN  <<m>> \o SetToSeq(S \ {m})

Min(S) == CHOOSE x \in S : \A y \in S : x <= y

\* mutant of register_result: the candidate is put back into the queue
register_result_requeue(b, c, ref) ==
    IF b.is_finished
    THEN [b |-> b, c |-> c, err |-> "RuntimeError"]
    ELSE [b |-> [b EXCEPT !.num_running = @ - 1],
          c |-> [c EXCEPT ![ref].status = "QUEUED"],
          err |-> "ok"]

\* mutant of register_result: the finished check comes after the update
register_result_latecheck(b, c, ref) ==
    [b |-> [b EXCEPT !.num_running = @ - 1],
     c |-> [c EXCEPT ![ref].status = "REVIEW"],
     err |-> IF b.is_finished THEN "RuntimeError" ELSE "ok"]

\* BaseIteration.register_result
register_result(b, c, ref) ==
    IF b.is_finished
    THEN [b |-> b, c |-> c, err |-> "RuntimeError"]
    ELSE [b |-> [b EXCEPT !.num_running = @ - 1],
          c |-> [c EXCEPT ![ref].status = "REVIEW"],
          err |-> "ok"]

\* mutant of finish_up: the candidates are checked but not completed
finish_up_nocomplete(b, c) ==
    LET bad == {k \in 1..Len(b.data) :
                  c[b.data[k]].status \notin {"TERMINATED", "REVIEW", "CRASHED"}}
    IN  [b |-> [b EXCEPT !.is_finished = TRUE],
         c |-> c,
         err |-> IF bad = {} THEN "ok" ELSE "AssertionError_status"]

\* BaseIteration._finish_up: candidates are completed in data order up to the
\* first one whose status fails the assertion
finish_up(b, c) ==
    LET ok(k) == c[b.data[k]].status \in {"TERMINATED", "REVIEW", "CRASHED"}
        bad   == {k \in 1..Len(b.data) : ~ok(k)}
        upto  == IF bad = {} THEN Len(b.data) ELSE Min(bad) - 1
        done  == {b.data[k] : k \in 1..upto}
    IN  [b |-> [b EXCEPT !.is_finished = TRUE],
         c |-> [r \in 1..Len(c) |->
                  IF r \in done THEN [c[r] EXCEPT !.status = "COMPLETED"] ELSE c[r]],
         err |-> IF bad = {} THEN "ok" ELSE "AssertionError_status"]

\* mutant of apply_advance: every compared candidate is promoted, the advance
\* vector is ignored
apply_advance_all(b, c, refs, advance) ==
    LET all == {refs[i] : i \in 1..Len(refs)}
    IN  [b |-> [b EXCEPT !.actual_num_candidates[b.stage + 1] = @ + Cardinality(all)],
         c |-> [r \in 1..Len(c) |->
                  IF r \in all
                  THEN [c[r] EXCEPT !.status = "QUEUED",
                                    !.budget = b.budgets[b.stage + 1]]
                  ELSE c[r]]]

\* mutant of apply_advance: the candidates not advanced keep their status
apply_advance_noterm(b, c, refs, advance) ==
    LET up == {refs[i] : i \in {j \in 1..Len(refs) : advance[j]}}
    IN  [b |-> [b EXCEPT !.actual_num_candidates[b.stage + 1] = @ + Cardinality(up)],
         c |-> [r \in 1..Len(c) |->
                  IF r \in up
                  THEN [c[r] EXCEPT !.status = "QUEUED",
                                    !.budget = b.budgets[b.stage + 1]]
                  ELSE c[r]]]

\* mutant of apply_advance: a promoted candidate keeps its old budget
apply_advance_keepbudget(b, c, refs, advance) ==
    LET up  == {refs[i] : i \in {j \in 1..Len(refs) : advance[j]}}
        all == {refs[i] : i \in 1..Len(refs)}
    IN  [b |-> [b EXCEPT !.actual_num_candidates[b.stage + 1] = @ + Cardinality(up)],
         c |-> [r \in 1..Len(c) |->
                  IF r \in up
                  THEN [c[r] EXCEPT !.status = "QUEUED"]
                  ELSE IF r \in all
                  THEN [c[r] EXCEPT !.status = "TERMINATED"]
                  ELSE c[r]]]

\* BaseIteration._finish_stage, lines 169-183: the loop over the compared
\* candidates (refs, in data order) with the policy's advance vector; b is the
\* bracket with the stage already advanced
apply_advance(b, c, refs, advance) ==
    LET up  == {refs[i] : i \in {j \in 1..Len(refs) : advance[j]}}
        all == {refs[i] : i \in 1..Len(refs)}
    IN  [b |-> [b EXCEPT !.actual_num_candidates[b.stage + 1] = @ + Cardinality(up)],
         c |-> [r \in 1..Len(c) |->
                  IF r \in up
                  THEN [c[r] EXCEPT !.status = "QUEUED",
                                    !.budget = b.budgets[b.stage + 1]]
                  ELSE IF r \in all
                  THEN [c[r] EXCEPT !.status = "TERMINATED"]
                  ELSE c[r]]]

\* BaseIteration._finish_stage, line 152: self.stage += 1
advance_stage(b) == [b EXCEPT !.stage = @ + 1]

\* BaseIteration._finish_stage.  ev is the event of the call: the compared
\* candidates, their losses, the advance vector and the heap and the filled
\* counters before and after.
finish_stage(b0, c) ==
    LET b      == advance_stage(b0)
        keys   == SetToSeq(KeysWithStatus(b, c, "REVIEW"))
        refs   == [i \in 1..Len(keys) |-> b.data[keys[i]]]
        budget == b.budgets[b.stage]
        ev0    == [final |-> TRUE, err |-> "ok", stage |-> b.stage, refs |-> refs,
                   losses |-> << >>, advance |-> << >>, pre |-> c, post |-> c,
                   pre_actual |-> b0.actual_num_candidates,
                   post_actual |-> b0.actual_num_candidates]
    IN  IF b.stage >= Len(b.num_candidates)
        THEN LET f == finish_up(b, c)
             IN  [b |-> f.b, c |-> f.c, err |-> f.err,
                  ev |-> [ev0 EXCEPT !.post = f.c, !.err = f.err]]
        ELSE IF Cardinality({c[refs[i]].budget : i \in 1..Len(refs)}) > 1
        THEN [b |-> b, c |-> c, err |-> "RuntimeError",
              ev |-> [ev0 EXCEPT !.final = FALSE, !.err = "RuntimeError"]]
        ELSE IF \E i \in 1..Len(refs) : ResultsAt(c[refs[i]], budget) = {}
        THEN [b |-> b, c |-> c, err |-> "KeyError",
              ev |-> [ev0 EXCEPT !.final = FALSE, !.err = "KeyError"]]
        ELSE LET losses  == [i \in 1..Len(refs) |-> get_incumbent(c[refs[i]], budget)]
                 advance == advance_to_next_stage(b, losses)
                 a       == apply_advance(b, c, refs, advance)
             IN  [b |-> a.b, c |-> a.c, err |-> "ok",
                  ev |-> [ev0 EXCEPT !.final = FALSE, !.losses = losses,
                                     !.advance = advance, !.post = a.c,
                                     !.post_actual = a.b.actual_num_candidates]]

\* BaseIteration._add_candidate: a fresh CandidateStructure from the structure
\* generator, stored under key (iteration, actual_num_candidates[stage]).
\* ref is the reference of the new object.
add_candidate(b, c) ==
    LET k   == b.actual_num_candidates[b.stage + 1]
        ref == Len(c) + 1
        cs  == [CandidateStructure(1) EXCEPT !.budget = b.budgets[b.stage + 1]]
    IN  IF b.is_finished \/ k = b.num_candidates[b.stage + 1]
        THEN [b |-> b, c |-> c, ref |-> Raised, err |-> "RuntimeError"]
        ELSE [b |-> [b EXCEPT
                       !.data = IF k + 1 <= Len(@) THEN [@ EXCEPT ![k + 1] = ref]
                                ELSE Append(@, ref),
                       !.actual_num_candidates[b.stage + 1] = @ + 1],
              c |-> Append(c, cs),
              ref |-> ref, err |-> "ok"]

\* BaseIteration.get_next_candidate
RECURSIVE get_next_candidate(_, _, _)
get_next_candidate(b, c, log) ==
    IF b.is_finished
    THEN [b |-> b, c |-> c, ret |-> None, err |-> "ok", log |-> log]
    ELSE LET queued == KeysWithStatus(b, c, "QUEUED")
         IN  IF queued # {}
             THEN LET ref == b.data[Min(queued)]
                  IN  IF c[ref].budget # b.budgets[b.stage + 1]
                      THEN [b |-> b, c |-> c, ret |-> Raised,
                            err |-> "AssertionError_budget", log |-> log]
                      ELSE [b |-> [b EXCEPT !.num_running = @ + 1],
                            c |-> [c EXCEPT ![ref].status = "RUNNING"],
                            ret |-> ref, err |-> "ok", log |-> log]
             ELSE IF b.actual_num_candidates[b.stage + 1] < b.num_candidates[b.stage + 1]
             THEN LET a == add_candidate(b, c)
                  IN  IF a.err # "ok"
                      THEN [b |-> a.b, c |-> a.c, ret |-> Raised,
                            err |-> a.err, log |-> log]
                      ELSE [b |-> [a.b EXCEPT !.num_running = @ + 1],
                            c |-> [a.c EXCEPT ![a.ref].status = "RUNNING"],
                            ret |-> a.ref, err |-> "ok", log |-> log]
             ELSE IF b.num_running = 0
             THEN LET f == finish_stage(b, c)
                  IN  IF f.err # "ok"
                      THEN [b |-> f.b, c |-> f.c, ret |-> Raised,
                            err |-> f.err, log |-> Append(log, f.ev)]
                      ELSE get_next_candidate(f.b, f.c, Append(log, f.ev))
             ELSE [b |-> b, c |-> c, ret |-> None, err |-> "ok", log |-> log]

\* Master._result_callback, lines 226 and 228, for the job's candidate:
\* job.cs.add_result(job.result), then the bracket's register_result; an
\* exception of the latter is caught and logged (line 232)
result_callback(b, c, ref, loss) ==
    register_result(b, [c EXCEPT ![ref] = add_result(@, loss)], ref)

\* ------------------------------------------------------------------------
\* One bracket driven by its callers
\* ------------------------------------------------------------------------
VARIABLES
    bracket,      \* the BaseIteration object
    cands,        \* heap of CandidateStructure objects
    late,         \* the dispatcher may deliver further callbacks for a candidate
    outstanding,  \* candidates handed out whose callback has not arrived
    extra,        \* callbacks delivered for candidates not outstanding
    op,           \* last operation
    ret,          \* what the last get_next_candidate returned
    err,          \* exception raised by the last operation, "ok" if none
    log,          \* _finish_stage events of the last get_next_candidate
    ran,          \* per candidate, the budgets it was handed out at, in order
    aborted       \* an exception left get_next_candidate: it propagates out of
                  \* the generator and ends the thread that pulls candidates

bvars == <<bracket, cands, late, outstanding, extra, op, ret, err, log, ran,
           aborted>>

\* brackets under test: capacities, budgets, advancement policy
\* (min_samples_advance, resampling_rate = rnum/rden) and delivery discipline
Setups ==
    { [nc |-> <<4, 2, 1>>, bd |-> <<1, 3, 9>>, policy |-> "SH", msa |-> 1, rnum |-> 1, rden |-> 2, late |-> FALSE],
      [nc |-> <<2, 1>>,    bd |-> <<1, 3>>,    policy |-> "SH", msa |-> 1, rnum |-> 1, rden |-> 2, late |-> TRUE],
      [nc |-> <<2, 3>>,    bd |-> <<1, 3>>,    policy |-> "SH", msa |-> 1, rnum |-> 1, rden |-> 2, late |-> FALSE],
      [nc |-> <<2, 1>>,    bd |-> <<3, 3>>,    policy |-> "SH", msa |-> 1, rnum |-> 1, rden |-> 2, late |-> FALSE],
      [nc |-> <<1>>,       bd |-> <<1>>,       policy |-> "SH", msa |-> 1, rnum |-> 1, rden |-> 2, late |-> TRUE],
      [nc |-> <<3, 2>>,    bd |-> <<1, 3>>,    policy |-> "SR", msa |-> 1, rnum |-> 1, rden |-> 2, late |-> FALSE],
      [nc |-> <<3, 2>>,    bd |-> <<1, 3>>,    policy |-> "SR", msa |-> 3, rnum |-> 1, rden |-> 2, late |-> FALSE],
      [nc |-> <<2, 2>>,    bd |-> <<1, 3>>,    policy |-> "SR", msa |-> 1, rnum |-> 0, rden |-> 1, late |-> TRUE],
      [nc |-> <<2, 1, 1>>, bd |-> <<2, 4, 8>>, policy |-> "SH", msa |-> 1, rnum |-> 1, rden |-> 2, late |-> TRUE],
      [nc |-> <<1, 0, 1>>, bd |-> <<1, 2, 4>>, policy |-> "SH", msa |-> 1, rnum |-> 1, rden |-> 2, late |-> FALSE],
      [nc |-> <<0, 1>>,    bd |-> <<1, 3>>,    policy |-> "SH", msa |-> 1, rnum |-> 1, rden |-> 2, late |-> FALSE] }

\* ------------------------------------------------------------------------
\* dswizard/core/config_generator_cache.py : ConfigGeneratorCache, called from
\* several threads; one step per statement of get
\* ------------------------------------------------------------------------
VARIABLES
    cache,   \* self.cache: search space -> engine (0: key absent)
    built,   \* per search space, how often self.clazz(...) was invoked
    cpc,     \* per thread, its position in get
    ckey,    \* per thread, the search space of its call
    ccg,     \* per thread, the local cg
    got,     \* per thread, the engine its last get returned (0: none yet)
    routed,  \* per engine, how often the last ConfigGeneratorCache.register_result
             \* call invoked its register_result
    creg     \* the last ConfigGeneratorCache.register_result call: the search
             \* space of its job and how it ended

cvars == <<cache, built, cpc, ckey, ccg, got, routed, creg>>

Threads == 1..NThreads
\* the distinct search spaces (configuration spaces used as dict keys)
Keys == {1, 2}

\* identities of the engines self.clazz(...) can return: every thread may build
\* one engine per search space
Engines == 1..(NThreads * Cardinality(Keys))

\* no register_result call yet
NoRegister == [key |-> 0, err |-> "none"]

\* ConfigGeneratorCache.__init__: empty cache
CacheInit ==
    /\ cache = [k \in Keys |-> 0]
    /\ built = [k \in Keys |-> 0]
    /\ cpc = [t \in Threads |-> "idle"]
    /\ ckey = [t \in Threads |-> 0]
    /\ ccg = [t \in Threads |-> 0]
    /\ got = [t \in Threads |-> 0]
    /\ routed = [e \in Engines |-> 0]
    /\ creg = NoRegister

\* ------------------------------------------------------------------------
\* dswizard/core/master.py : Master.optimize (main thread) and
\* Master._result_callback (one dispatcher thread per finished job)
\* ------------------------------------------------------------------------
VARIABLES
    mpc,          \* position of the main thread in optimize / _optimize
    wall,         \* time.time() > start + self.wallclock_limit
    timeout,      \* the local variable timeout of optimize
    repetition,   \* the local variable repetition of optimize
    resets,       \* calls of bandit_learner.reset so far
    pulls,        \* candidates yielded by bandit_learner.next_candidate so far
    left,         \* jobs of the current candidate still to be created
    checked,      \* the deadline check of the current job has passed
    jobs,         \* submitted jobs: "submitted", "callback" (inside the
                  \* with-block of _result_callback) or "done"
    lock,         \* holder of self.thread_cond (a job), 0 if free
    finish_work,  \* dispatcher.finish_work was called
    seen,         \* a deadline check found the deadline exceeded
    interrupted,  \* KeyboardInterrupt was raised in the main loop
    loaded,       \* the jobs whose results result_logger.load() returned
    cb            \* the _result_callback call running or last run: its job
                  \* and what it has done so far

mvars == <<mpc, wall, timeout, repetition, resets, pulls, left, checked, jobs,
           lock, finish_work, seen, interrupted, loaded, cb>>

\* no _result_callback call yet
NoCallback == [job |-> 0, config |-> "none", seen |-> FALSE, logged |-> FALSE,
               added |-> FALSE, cache |-> FALSE, bracket |-> FALSE, sg |-> FALSE,
               raised |-> FALSE]

\* Master.optimize up to line 187
MasterInit ==
    /\ mpc = "loop"
    /\ wall = FALSE
    /\ timeout = FALSE
    /\ repetition = 0
    /\ resets = 0
    /\ pulls = 0
    /\ left = 0
    /\ checked = FALSE
    /\ jobs = << >>
    /\ lock = 0
    /\ finish_work = FALSE
    /\ seen = FALSE
    /\ interrupted = FALSE
    /\ loaded = {}
    /\ cb = NoCallback

\* ------------------------------------------------------------------------
\* dswizard/core/base_bandit_learner.py : BanditLearner, its generator
\* _get_next_structure pulled by Master.optimize (master.py, lines 150 and
\* 185-194), results arriving through Master._result_callback
\* ------------------------------------------------------------------------
VARIABLES
    iterations,      \* self.iterations: the brackets, in creation order
    lheap,           \* heap of the CandidateStructure objects of the brackets
    learner_offset,  \* the offset the last reset call passed to the learner
    n_iterations,    \* the generator's local n_iterations
    gpc,             \* position: "reset", "scan", "yielded", "ended",
                     \* "timeout", "raised" or "stopped"
    cursor,          \* the scan's next index in range(len(self.iterations))
    asked,           \* the get_next_candidate calls of the current scan
    yielded,         \* the pair the generator is suspended at
    pending,         \* yielded candidates whose job has not called back
    offset,          \* the local variable offset of optimize
    lrepetition,     \* the local variable repetition of optimize
    ltimeout,        \* the local variable timeout of optimize
    ncreated,        \* brackets created by the current generator call
    issued           \* (repetition, CandidateId) of every candidate created

lvars == <<iterations, lheap, learner_offset, n_iterations, gpc, cursor, asked,
           yielded, pending, offset, lrepetition, ltimeout, ncreated, issued>>

NoPair == [c |-> None, i |-> -1]

\* BanditLearner.__init__ (lines 25-27) and Master.optimize up to line 187
LearnerInit ==
    /\ iterations = << >>
    /\ lheap = << >>
    /\ learner_offset = 0
    /\ n_iterations = 0
    /\ gpc = "reset"
    /\ cursor = 0
    /\ asked = << >>
    /\ yielded = NoPair
    /\ pending = {}
    /\ offset = 0
    /\ lrepetition = 0
    /\ ltimeout = FALSE
    /\ ncreated = 0
    /\ issued = {}

\* ------------------------------------------------------------------------
\* Pure functions (CandidateId order, RunHistory) applied to drawn inputs
\* ------------------------------------------------------------------------
VARIABLES
    ipc,    \* CandidateId comparison: "off", "drawn" or "compared"
    idx,    \* the CandidateId objects drawn
    icmp,   \* the outcomes of comparing them pairwise
    hpc,    \* RunHistory: "off", "drawn" or the method applied last
    hin,    \* the input drawn: a RunHistory, or the arguments of its constructor
    hout    \* what the method returned

pvars == <<ipc, idx, icmp, hpc, hin, hout>>

\* the pure functions are not exercised
PureIdle ==
    /\ ipc = "off"
    /\ idx = << >>
    /\ icmp = << >>
    /\ hpc = "off"
    /\ hin = << >>
    /\ hout = << >>

NoReturn == [ref |-> None, budget |-> 0, stage_budget |-> 0]

\* a bracket as constructed from setup s, before any call
BracketFor(s) ==
    /\ bracket = BaseIteration(0, s.nc, s.bd, s.policy, s.msa, s.rnum, s.rden)
    /\ late = s.late
    /\ cands = << >>
    /\ outstanding = {}
    /\ extra = 0
    /\ op = "init"
    /\ ret = NoReturn
    /\ err = "ok"
    /\ log = << >>
    /\ ran = << >>
    /\ aborted = FALSE

Init ==
    /\ \E s \in Setups : BracketFor(s)
    /\ CacheInit
    /\ MasterInit
    /\ LearnerInit
    /\ PureIdle

\* the caller pulls the next candidate (BanditLearner._get_next_structure, line 63)
GetNextCandidate ==
    LET r == get_next_candidate(bracket, cands, << >>)
    IN  /\ ~aborted
        /\ aborted' = (r.err # "ok")
        /\ bracket' = r.b
        /\ cands' = r.c
        /\ op' = "get_next_candidate"
        /\ err' = r.err
        /\ log' = r.log
        /\ ret' = IF r.ret > 0
                  THEN [ref |-> r.ret, budget |-> r.c[r.ret].budget,
                        stage_budget |-> r.b.budgets[r.b.stage + 1]]
                  ELSE [NoReturn EXCEPT !.ref = r.ret]
        /\ outstanding' = IF r.ret > 0 THEN outstanding \cup {r.ret} ELSE outstanding
        /\ ran' = [x \in 1..Len(r.c) |->
                     LET old == IF x <= Len(ran) THEN ran[x] ELSE << >>
                     IN  IF x = r.ret THEN Append(old, r.c[x].budget) ELSE old]
        /\ UNCHANGED <<late, extra>>
        /\ UNCHANGED <<cvars, mvars, pvars, lvars>>

\* the completion callback of a candidate that was handed out
ResultCallback(ref, loss) ==
    /\ ref \in outstanding
    /\ LET r == result_callback(bracket, cands, ref, loss)
       IN  /\ bracket' = r.b
           /\ cands' = r.c
           /\ err' = r.err
    /\ outstanding' = outstanding \ {ref}
    /\ op' = "register_result"
    /\ ret' = NoReturn
    /\ log' = << >>
    /\ UNCHANGED <<late, extra, ran, aborted>>
    /\ UNCHANGED <<cvars, mvars, pvars, lvars>>

\* the candidate was handed out with a budget that makes the master create
\* more than one job for it: n_configs = int(candidate.budget), master.py,
\* lines 156-158
SeveralJobs(ref) ==
    /\ ref <= Len(ran)
    /\ \E i \in 1..Len(ran[ref]) : ran[ref][i] >= 2

\* a further callback for a candidate that is not outstanding: the master
\* dispatches int(budget) jobs per candidate (master.py, lines 156-174), each
\* of which calls back
LateCallback(ref, loss) ==
    /\ late
    /\ extra < MaxExtra
    /\ ref \in 1..Len(cands)
    /\ ref \notin outstanding
    /\ SeveralJobs(ref)
    /\ LET r == result_callback(bracket, cands, ref, loss)
       IN  /\ bracket' = r.b
           /\ cands' = r.c
           /\ err' = r.err
    /\ extra' = extra + 1
    /\ op' = "register_result"
    /\ ret' = NoReturn
    /\ log' = << >>
    /\ UNCHANGED <<late, outstanding, ran, aborted>>
    /\ UNCHANGED <<cvars, mvars, pvars, lvars>>

Next ==
    \/ GetNextCandidate
    \/ \E ref \in 1..Len(cands), loss \in Losses : ResultCallback(ref, loss)
    \/ \E ref \in 1..Len(cands), loss \in Losses : LateCallback(ref, loss)

vars == <<bvars, cvars, mvars, pvars, lvars>>

Spec == Init /\ [][Next]_vars

\* ------------------------------------------------------------------------
\* ConfigGeneratorCache.get, statement by statement
\* ------------------------------------------------------------------------

RECURSIVE SumOver(_, _)
SumOver(f, S) ==
    IF S = {} THEN 0
    ELSE LET x == CHOOSE y \in S : TRUE IN f[x] + SumOver(f, S \ {x})

\* identity of the next engine: engines are numbered in construction order
NewEngine == 1 + SumOver(built, Keys)

\* a thread calls get(pipeline); line 64: configspace = pipeline.configuration_space
CacheGetCall(t, k) ==
    /\ cpc[t] = "idle"
    /\ cpc' = [cpc EXCEPT ![t] = "test"]
    /\ ckey' = [ckey EXCEPT ![t] = k]
    /\ got' = [got EXCEPT ![t] = 0]
    /\ UNCHANGED <<cache, built, ccg>>
    /\ UNCHANGED <<routed, creg>>
    /\ UNCHANGED <<bvars, mvars, pvars, lvars>>

\* mutant of CacheGetTest: the engine is constructed whether or not the key
\* is present
CacheGetTest_construct(t) ==
    /\ cpc[t] = "test"
    /\ cpc' = [cpc EXCEPT ![t] = "construct"]
    /\ UNCHANGED <<cache, built, ckey, ccg, got>>
    /\ UNCHANGED <<routed, creg>>
    /\ UNCHANGED <<bvars, mvars, pvars, lvars>>

\* line 65: if configspace not in self.cache
CacheGetTest(t) ==
    /\ cpc[t] = "test"
    /\ cpc' = [cpc EXCEPT ![t] = IF cache[ckey[t]] = 0 THEN "construct" ELSE "return"]
    /\ UNCHANGED <<cache, built, ckey, ccg, got>>
    /\ UNCHANGED <<routed, creg>>
    /\ UNCHANGED <<bvars, mvars, pvars, lvars>>

\* line 66: cg = self.clazz(configspace, pipeline, **self.init_kwargs)
CacheGetConstruct(t) ==
    /\ cpc[t] = "construct"
    /\ ccg' = [ccg EXCEPT ![t] = NewEngine]
    /\ built' = [built EXCEPT ![ckey[t]] = @ + 1]
    /\ cpc' = [cpc EXCEPT ![t] = "insert"]
    /\ UNCHANGED <<cache, ckey, got>>
    /\ UNCHANGED <<routed, creg>>
    /\ UNCHANGED <<bvars, mvars, pvars, lvars>>

\* line 67: self.cache[configspace] = cg
CacheGetInsert(t) ==
    /\ cpc[t] = "insert"
    /\ cache' = [cache EXCEPT ![ckey[t]] = ccg[t]]
    /\ cpc' = [cpc EXCEPT ![t] = "return"]
    /\ UNCHANGED <<built, ckey, ccg, got>>
    /\ UNCHANGED <<routed, creg>>
    /\ UNCHANGED <<bvars, mvars, pvars, lvars>>

\* line 68: return self.cache[configspace]
CacheGetReturn(t) ==
    /\ cpc[t] = "return"
    /\ got' = [got EXCEPT ![t] = cache[ckey[t]]]
    /\ cpc' = [cpc EXCEPT ![t] = "idle"]
    /\ ccg' = [ccg EXCEPT ![t] = 0]
    /\ UNCHANGED <<cache, built, ckey>>
    /\ UNCHANGED <<routed, creg>>
    /\ UNCHANGED <<bvars, mvars, pvars, lvars>>

\* mutant of cache_register_result: the KeyError of a missing key is not caught
cache_register_result_nocatch(ch, rt, k) ==
    IF ch[k] = 0
    THEN [cache |-> ch, routed |-> rt, engine |-> 0, err |-> "KeyError"]
    ELSE [cache |-> ch, routed |-> [rt EXCEPT ![ch[k]] = @ + 1],
          engine |-> ch[k], err |-> "ok"]

\* ConfigGeneratorCache.register_result for a job of search space k:
\* self.cache[k].register_result(job), the KeyError of a missing key swallowed
cache_register_result(ch, rt, k) ==
    IF ch[k] = 0
    THEN [cache |-> ch, routed |-> rt, engine |-> 0, err |-> "ok"]
    ELSE [cache |-> ch, routed |-> [rt EXCEPT ![ch[k]] = @ + 1],
          engine |-> ch[k], err |-> "ok"]

\* a callback registers a finished job of search space k (master.py, line 227)
\* while other threads may be inside get
CacheRegisterResult(k) ==
    /\ LET r == cache_register_result(cache, [e \in Engines |-> 0], k)
       IN  /\ cache' = r.cache
           /\ routed' = r.routed
           /\ creg' = [key |-> k, err |-> r.err]
    /\ UNCHANGED <<built, cpc, ckey, ccg, got>>
    /\ UNCHANGED <<bvars, mvars, pvars, lvars>>

CacheNext ==
    \/ \E k \in Keys : CacheRegisterResult(k)
    \/ \E t \in Threads, k \in Keys : CacheGetCall(t, k)
    \/ \E t \in Threads : CacheGetTest(t)
    \/ \E t \in Threads : CacheGetConstruct(t)
    \/ \E t \in Threads : CacheGetInsert(t)
    \/ \E t \in Threads : CacheGetReturn(t)

\* the cache alone, its callers interleaved; the bracket stays as constructed
CacheSpecInit ==
    /\ BracketFor([nc |-> <<1>>, bd |-> <<1>>, policy |-> "SH", msa |-> 1,
                   rnum |-> 1, rden |-> 2, late |-> FALSE])
    /\ CacheInit
    /\ MasterInit
    /\ LearnerInit
    /\ PureIdle

SpecCache == CacheSpecInit /\ [][CacheNext]_vars

\* the cache called from one thread at a time: a call of get or
\* register_result starts only when no call of get is in progress
NoGetRunning == \A u \in Threads : cpc[u] = "idle"

SeqGetCall(t, k) == NoGetRunning /\ CacheGetCall(t, k)

SeqRegisterResult(k) == NoGetRunning /\ CacheRegisterResult(k)

CacheSeqNext ==
    \/ \E k \in Keys : SeqRegisterResult(k)
    \/ \E t \in Threads, k \in Keys : SeqGetCall(t, k)
    \/ \E t \in Threads : CacheGetTest(t)
    \/ \E t \in Threads : CacheGetConstruct(t)
    \/ \E t \in Threads : CacheGetInsert(t)
    \/ \E t \in Threads : CacheGetReturn(t)

SpecCacheSeq == CacheSpecInit /\ [][CacheSeqNext]_vars

\* ------------------------------------------------------------------------
\* Master.optimize and Master._result_callback, statement by statement.
\* bandit_learner.next_candidate() is the generator of
\* BanditLearner._get_next_structure: the main thread runs the brackets'
\* get_next_candidate inside it; what it yields depends on the brackets and is
\* left open here (a candidate with int(budget) in 0..MaxConfigs, or the end).
\* ------------------------------------------------------------------------

\* mutant of timeout_result: _optimize reports no timeout
timeout_result_false == FALSE

\* _optimize, line 172: return True
timeout_result == TRUE

\* _optimize, line 175: return False
exhausted_result == FALSE

\* optimize, line 189: while not timeout (MaxRepetitions caps the loop)
MLoop ==
    /\ mpc = "loop"
    /\ IF timeout THEN mpc' = "load"
       ELSE resets < MaxRepetitions /\ mpc' = "reset"
    /\ UNCHANGED <<wall, timeout, repetition, resets, pulls, left, checked, jobs,
                   lock, finish_work, seen>>
    /\ UNCHANGED <<interrupted, loaded, cb>>
    /\ UNCHANGED <<bvars, cvars, pvars, lvars>>

\* optimize, line 191: self.bandit_learner.reset(offset); line 192 enters _optimize
MReset ==
    /\ mpc = "reset"
    /\ resets' = resets + 1
    /\ mpc' = "pull"
    /\ UNCHANGED <<wall, timeout, repetition, pulls, left, checked, jobs, lock,
                   finish_work, seen>>
    /\ UNCHANGED <<interrupted, loaded, cb>>
    /\ UNCHANGED <<bvars, cvars, pvars, lvars>>

\* _optimize, line 150: the for statement resumes the generator, which calls
\* get_next_candidate of the brackets; thread_cond is not acquired
MPullBegin ==
    /\ mpc = "pull"
    /\ mpc' = "pulling"
    /\ UNCHANGED <<wall, timeout, repetition, resets, pulls, left, checked, jobs,
                   lock, finish_work, seen>>
    /\ UNCHANGED <<interrupted, loaded, cb>>
    /\ UNCHANGED <<bvars, cvars, pvars, lvars>>

\* _optimize, lines 150-157: the generator yields a candidate;
\* n = n_configs = int(candidate.budget)
MPullCandidate(n) ==
    /\ mpc = "pulling"
    /\ pulls < MaxPulls
    /\ pulls' = pulls + 1
    /\ left' = n
    /\ mpc' = IF n > 0 THEN "check" ELSE "pull"
    /\ UNCHANGED <<wall, timeout, repetition, resets, checked, jobs, lock,
                   finish_work, seen>>
    /\ UNCHANGED <<interrupted, loaded, cb>>
    /\ UNCHANGED <<bvars, cvars, pvars, lvars>>

\* _optimize, line 175: the generator is exhausted, return False (line 192
\* assigns it to timeout)
MPullExhausted ==
    /\ mpc = "pulling"
    /\ timeout' = exhausted_result
    /\ mpc' = "returned"
    /\ UNCHANGED <<wall, repetition, resets, pulls, left, checked, jobs, lock,
                   finish_work, seen>>
    /\ UNCHANGED <<interrupted, loaded, cb>>
    /\ UNCHANGED <<bvars, cvars, pvars, lvars>>

\* mutant of finish_work_called: the timeout branch returns without telling
\* the dispatcher
finish_work_skipped == FALSE

\* _optimize, line 171: self.dispatcher.finish_work() is called
finish_work_called == TRUE

\* _optimize, lines 159-171: the job is created, then the deadline is tested;
\* if exceeded, dispatcher.finish_work() is entered
MCheck ==
    /\ mpc = "check"
    /\ IF wall
       THEN /\ seen' = TRUE
            /\ finish_work' = finish_work_called
            /\ mpc' = "finish_work"
            /\ UNCHANGED checked
       ELSE /\ checked' = TRUE
            /\ mpc' = "submit"
            /\ UNCHANGED <<seen, finish_work>>
    /\ UNCHANGED <<wall, timeout, repetition, resets, pulls, left, jobs, lock>>
    /\ UNCHANGED <<interrupted, loaded, cb>>
    /\ UNCHANGED <<bvars, cvars, pvars, lvars>>

\* _optimize, line 174: self.dispatcher.submit_job(job); then the next i of
\* line 158 or the next candidate of line 150
MSubmit ==
    /\ mpc = "submit"
    /\ jobs' = Append(jobs, "submitted")
    /\ left' = left - 1
    /\ checked' = FALSE
    /\ mpc' = IF left - 1 > 0 THEN "check" ELSE "pull"
    /\ UNCHANGED <<wall, timeout, repetition, resets, pulls, lock, finish_work, seen>>
    /\ UNCHANGED <<interrupted, loaded, cb>>
    /\ UNCHANGED <<bvars, cvars, pvars, lvars>>

\* optimize, lines 193-194: repetition += 1 (and the offset), back to line 189
MAfterOptimize ==
    /\ mpc = "returned"
    /\ repetition' = repetition + 1
    /\ mpc' = "loop"
    /\ UNCHANGED <<wall, timeout, resets, pulls, left, checked, jobs, lock,
                   finish_work, seen>>
    /\ UNCHANGED <<interrupted, loaded, cb>>
    /\ UNCHANGED <<bvars, cvars, pvars, lvars>>

\* the wall clock passes start + self.wallclock_limit
Tick ==
    /\ ~wall
    /\ wall' = TRUE
    /\ UNCHANGED <<mpc, timeout, repetition, resets, pulls, left, checked, jobs,
                   lock, finish_work, seen>>
    /\ UNCHANGED <<interrupted, loaded, cb>>
    /\ UNCHANGED <<bvars, cvars, pvars, lvars>>

\* a job is in flight until its callback has left the with-block
InFlight(j) == jobs[j] \in {"submitted", "callback", "registering"}

\* Dispatcher.finish_work: stop accepting work and drain, i.e. the call returns
\* when no job is in flight
Drained == \A j \in 1..Len(jobs) : ~InFlight(j)

\* _optimize, lines 171-172: finish_work returns, then return True (line 192
\* assigns it to timeout)
MFinishWork ==
    /\ mpc = "finish_work"
    /\ finish_work => Drained
    /\ timeout' = timeout_result
    /\ mpc' = "returned"
    /\ UNCHANGED <<wall, repetition, resets, pulls, left, checked, jobs, lock,
                   finish_work, seen>>
    /\ UNCHANGED <<interrupted, loaded, cb>>
    /\ UNCHANGED <<bvars, cvars, pvars, lvars>>

\* optimize, lines 195-196: KeyboardInterrupt is raised in the main thread
\* somewhere inside the try block; the handler only logs
MInterrupt ==
    /\ mpc \in {"loop", "reset", "pull", "pulling", "check", "submit",
                "finish_work", "returned"}
    /\ interrupted' = TRUE
    /\ mpc' = "load"
    /\ UNCHANGED <<wall, timeout, repetition, resets, pulls, left, checked, jobs,
                   lock, finish_work, seen>>
    /\ UNCHANGED <<loaded, cb>>
    /\ UNCHANGED <<bvars, cvars, pvars, lvars>>

\* optimize, lines 202-205: result_logger.load() reads what the callbacks have
\* logged so far; the RunHistory is built from it and returned
MLoad ==
    /\ mpc = "load"
    /\ loaded' = {j \in 1..Len(jobs) : jobs[j] \in {"registering", "done", "failed"}}
    /\ mpc' = "done"
    /\ UNCHANGED <<wall, timeout, repetition, resets, pulls, left, checked, jobs,
                   lock, finish_work, seen>>
    /\ UNCHANGED <<interrupted, cb>>
    /\ UNCHANGED <<bvars, cvars, pvars, lvars>>

\* job.config as a job comes back from its worker: a sampled configuration
\* or None
JobConfigs == {"sampled", "none"}

\* _result_callback, line 215: with self.thread_cond (acquire); cb.seen notes
\* whether the deadline had been found exceeded by then, cb.config is
\* job.config
CallbackEnter(j, config) ==
    /\ jobs[j] = "submitted"
    /\ lock = 0
    /\ lock' = j
    /\ jobs' = [jobs EXCEPT ![j] = "callback"]
    /\ cb' = [NoCallback EXCEPT !.job = j, !.seen = seen, !.config = config]
    /\ UNCHANGED <<mpc, wall, timeout, repetition, resets, pulls, left, checked,
                   finish_work, seen>>
    /\ UNCHANGED <<interrupted, loaded>>
    /\ UNCHANGED <<bvars, cvars, pvars, lvars>>

\* mutant of callback_bookkeeping: a job without configuration is dropped
callback_bookkeeping_drop(c) ==
    IF c.config = "none" THEN c
    ELSE [c EXCEPT !.logged = TRUE, !.added = TRUE, !.cache = TRUE]

\* _result_callback, lines 217-227: the default configuration for a job
\* without one, then log_evaluated_config, job.cs.add_result,
\* cfg_cache.register_result
callback_bookkeeping(c) ==
    [c EXCEPT !.config = IF @ = "none" THEN "default" ELSE @,
              !.logged = TRUE, !.added = TRUE, !.cache = TRUE]

\* _result_callback, lines 217-227
CallbackRun(j) ==
    /\ jobs[j] = "callback"
    /\ lock = j
    /\ cb' = callback_bookkeeping(cb)
    /\ jobs' = [jobs EXCEPT ![j] = "registering"]
    /\ UNCHANGED <<mpc, wall, timeout, repetition, resets, pulls, left, checked,
                   lock, finish_work, seen>>
    /\ UNCHANGED <<interrupted, loaded>>
    /\ UNCHANGED <<bvars, cvars, pvars, lvars>>

\* _result_callback, lines 228-229: bandit_learner.register_result and
\* structure_generator.register_result return, the with-block is left
\* (release)
CallbackLeave(j) ==
    /\ jobs[j] = "registering"
    /\ lock = j
    /\ lock' = 0
    /\ cb' = [cb EXCEPT !.bracket = TRUE, !.sg = TRUE]
    /\ jobs' = [jobs EXCEPT ![j] = "done"]
    /\ UNCHANGED <<mpc, wall, timeout, repetition, resets, pulls, left, checked,
                   finish_work, seen>>
    /\ UNCHANGED <<interrupted, loaded>>
    /\ UNCHANGED <<bvars, cvars, pvars, lvars>>

\* _result_callback, lines 228 and 232-234: bandit_learner.register_result
\* raises (BaseIteration.register_result on a finished bracket: RuntimeError);
\* the exception is caught and logged, line 229 is skipped, the with-block is
\* left (release)
CallbackRaise(j) ==
    /\ jobs[j] = "registering"
    /\ lock = j
    /\ lock' = 0
    /\ cb' = [cb EXCEPT !.raised = TRUE]
    /\ jobs' = [jobs EXCEPT ![j] = "failed"]
    /\ UNCHANGED <<mpc, wall, timeout, repetition, resets, pulls, left, checked,
                   finish_work, seen>>
    /\ UNCHANGED <<interrupted, loaded>>
    /\ UNCHANGED <<bvars, cvars, pvars, lvars>>

MasterNext ==
    \/ MLoop
    \/ MReset
    \/ MPullBegin
    \/ \E n \in 0..MaxConfigs : MPullCandidate(n)
    \/ MPullExhausted
    \/ MCheck
    \/ MSubmit
    \/ MAfterOptimize
    \/ Tick
    \/ MFinishWork
    \/ MInterrupt
    \/ MLoad
    \/ \E j \in 1..Len(jobs) : \E config \in JobConfigs : CallbackEnter(j, config)
    \/ \E j \in 1..Len(jobs) : CallbackRun(j)
    \/ \E j \in 1..Len(jobs) : CallbackLeave(j)
    \/ \E j \in 1..Len(jobs) : CallbackRaise(j)

\* the master's control flow with its dispatcher threads; the bracket and
\* the cache stay as constructed
SpecMaster == CacheSpecInit /\ [][MasterNext]_vars

\* ------------------------------------------------------------------------
\* dswizard/core/model.py : CandidateId
\* ------------------------------------------------------------------------

\* CandidateId.__init__: the objects drawn; config defaults to -1
CandidateIds ==
    [iteration : 0..MaxIteration, structure : 0..MaxSlot, config : -1..MaxSlot]

\* CandidateId.as_tuple
as_tuple(id) == <<id.iteration, id.structure, id.config>>

\* Python's < on tuples: the first position where the tuples differ decides,
\* a proper prefix is smaller
RECURSIVE tuple_lt(_, _)
tuple_lt(a, b) ==
    IF a = << >> THEN b # << >>
    ELSE IF b = << >> THEN FALSE
    ELSE IF Head(a) # Head(b) THEN Head(a) < Head(b)
    ELSE tuple_lt(Tail(a), Tail(b))

\* Python's hash of a small int (hash(-1) is -2) and of a tuple, which
\* combines the hashes of the elements in order
int_hash(n) == IF n = -1 THEN -2 ELSE n
tuple_hash(t) == [i \in 1..Len(t) |-> int_hash(t[i])]

\* mutant of CandidateId_lt: the config slot is left out of the comparison
CandidateId_lt_noconfig(x, y) ==
    tuple_lt(<<x.iteration, x.structure>>, <<y.iteration, y.structure>>)

\* CandidateId.__lt__
CandidateId_lt(x, y) == tuple_lt(as_tuple(x), as_tuple(y))

\* CandidateId.__eq__
CandidateId_eq(x, y) == as_tuple(x) = as_tuple(y)

\* CandidateId.__hash__
CandidateId_hash(x) == tuple_hash(as_tuple(x))

\* three CandidateId objects are constructed
IdInit ==
    /\ ipc = "drawn"
    /\ idx \in [1..3 -> CandidateIds]
    /\ icmp = << >>
    /\ hpc = "off"
    /\ hin = << >>
    /\ hout = << >>

\* every pair of the drawn objects is compared with <, == and by hash
IdCompare ==
    /\ ipc = "drawn"
    /\ icmp' = [i \in 1..3 |-> [j \in 1..3 |->
                   [lt |-> CandidateId_lt(idx[i], idx[j]),
                    eq |-> CandidateId_eq(idx[i], idx[j]),
                    hash_eq |-> CandidateId_hash(idx[i]) = CandidateId_hash(idx[j])]]]
    /\ ipc' = "compared"
    /\ UNCHANGED <<idx, hpc, hin, hout>>
    /\ UNCHANGED <<bvars, cvars, mvars, lvars>>

IdNext == IdCompare

\* CandidateId objects compared; bracket, cache and master stay as constructed
SpecIdInit ==
    /\ BracketFor([nc |-> <<1>>, bd |-> <<1>>, policy |-> "SH", msa |-> 1,
                   rnum |-> 1, rden |-> 2, late |-> FALSE])
    /\ CacheInit
    /\ MasterInit
    /\ LearnerInit
    /\ IdInit

SpecId == SpecIdInit /\ [][IdNext]_vars

\* ------------------------------------------------------------------------
\* dswizard/core/runhistory.py : RunHistory
\*
\* self.data maps a config id to its Datum.  The ids are HistIds, ordered as
\* CandidateId orders them and inserted in that order.  A Datum is kept as
\* the function budget -> entry over HistBudgets: present says that the
\* budget is a key of results and time_stamps, loss is the loss of
\* results[budget] (NoLoss if results[budget] is None), finished is
\* time_stamps[budget]['finished'].  repr tells how a result that is not None
\* is stored: as a Result object ("Result") or as the bare loss read from the
\* results log ("float", logged_results_to_runhistory, line 444).
\* ------------------------------------------------------------------------

HistIds == {1, 2}
HistBudgets == {1, 3}
HistLosses == {1, 2}
\* results[budget] is None
NoLoss == -1
\* float('inf')
Inf == 99

AbsentEntry == [present |-> FALSE, loss |-> NoLoss, finished |-> 0]

Entries ==
    {AbsentEntry} \cup
    [present : {TRUE}, loss : HistLosses \cup {NoLoss}, finished : 1..MaxTime]

\* Python's sorted / list.sort with a key: stable
sort_by_key(xs, keys) ==
    LET p == argsort(keys) IN [i \in 1..Len(xs) |-> xs[p[i]]]

RECURSIVE Concat(_)
Concat(ss) == IF ss = << >> THEN << >> ELSE Head(ss) \o Concat(Tail(ss))

\* RunHistory.get_runs_by_id: one Run per key of results, sorted by budget
get_runs_by_id(data, id) ==
    LET bs == SetToSeq({b \in HistBudgets : data[id][b].present})
    IN  [i \in 1..Len(bs) |->
           [config_id |-> id, budget |-> bs[i], loss |-> data[id][bs[i]].loss,
            finished |-> data[id][bs[i]].finished]]

\* RunHistory.get_all_runs
get_all_runs(data, only_largest_budget) ==
    LET ids == SetToSeq(HistIds)
        per == [i \in 1..Len(ids) |->
                  LET runs == get_runs_by_id(data, ids[i])
                  IN  IF Len(runs) = 0 THEN << >>
                      ELSE IF only_largest_budget THEN <<runs[Len(runs)]>>
                      ELSE runs]
    IN  Concat(per)

\* mutant of new_incumbent: the budget of a new incumbent may be smaller
new_incumbent_anybudget(r, acc, bigger_is_better, non_decreasing_budget) ==
    \/ bigger_is_better /\ r.budget > acc.incumbent_budget
    \/ r.loss < acc.current_incumbent

\* mutant of new_incumbent: a run that ties the current loss is accepted
new_incumbent_nonstrict(r, acc, bigger_is_better, non_decreasing_budget) ==
    IF non_decreasing_budget /\ r.budget < acc.incumbent_budget THEN FALSE
    ELSE \/ bigger_is_better /\ r.budget > acc.incumbent_budget
         \/ r.loss <= acc.current_incumbent

\* get_incumbent_trajectory, lines 215-224: the flag new_incumbent of run r
new_incumbent(r, acc, bigger_is_better, non_decreasing_budget) ==
    IF non_decreasing_budget /\ r.budget < acc.incumbent_budget THEN FALSE
    ELSE \/ bigger_is_better /\ r.budget > acc.incumbent_budget
         \/ r.loss < acc.current_incumbent

\* get_incumbent_trajectory, lines 211-233: the loop over all_runs from
\* position i on.  A point of return_dict is kept as one record; its field
\* run is the position in all_runs of the run that produced it.
RECURSIVE scan_runs(_, _, _, _, _)
scan_runs(all_runs, i, acc, bigger_is_better, non_decreasing_budget) ==
    IF i > Len(all_runs) THEN acc
    ELSE LET r == all_runs[i]
         IN  IF r.loss = NoLoss
             THEN scan_runs(all_runs, i + 1, acc, bigger_is_better, non_decreasing_budget)
             ELSE IF new_incumbent(r, acc, bigger_is_better, non_decreasing_budget)
             THEN scan_runs(all_runs, i + 1,
                            [current_incumbent |-> r.loss,
                             incumbent_budget |-> r.budget,
                             points |-> Append(acc.points,
                                 [config_id |-> r.config_id, finished |-> r.finished,
                                  budget |-> r.budget, loss |-> r.loss, run |-> i])],
                            bigger_is_better, non_decreasing_budget)
             ELSE scan_runs(all_runs, i + 1, acc, bigger_is_better, non_decreasing_budget)

\* get_incumbent_trajectory, lines 235-242: the closing point; r is the last
\* run of the loop, return_dict[...][-1] raises IndexError on empty lists
closing_point(all_runs, acc) ==
    LET r == all_runs[Len(all_runs)]
    IN  IF acc.current_incumbent # r.loss
        THEN IF acc.points = << >>
             THEN [err |-> "IndexError", points |-> << >>]
             ELSE [err |-> "ok",
                   points |-> Append(acc.points,
                       [acc.points[Len(acc.points)] EXCEPT
                           !.finished = r.finished, !.run = 0])]
        ELSE [err |-> "ok", points |-> acc.points]

\* RunHistory.get_incumbent_trajectory; all_runs is returned along with the
\* points
get_incumbent_trajectory(h, all_budgets, bigger_is_better, non_decreasing_budget) ==
    LET runs0    == get_all_runs(h.data, ~all_budgets)
        runs1    == IF ~all_budgets
                    THEN SelectSeq(runs0, LAMBDA r : r.budget = h.max_budget)
                    ELSE runs0
        all_runs == sort_by_key(runs1, [i \in 1..Len(runs1) |-> runs1[i].finished])
    IN  IF Len(all_runs) = 0
        THEN [err |-> "ok", points |-> << >>, all_runs |-> all_runs]
        ELSE LET acc == scan_runs(all_runs, 1,
                                  [current_incumbent |-> Inf,
                                   incumbent_budget |-> h.min_budget,
                                   points |-> << >>],
                                  bigger_is_better, non_decreasing_budget)
                 c   == closing_point(all_runs, acc)
             IN  [err |-> c.err, points |-> c.points, all_runs |-> all_runs]

\* RunHistory.get_incumbent_id: res.loss of a result stored as a bare float
\* raises AttributeError; min(tmp_list) compares (loss, id) pairs
get_incumbent_id(h) ==
    LET tmp == {k \in HistIds : /\ h.data[k][h.max_budget].present
                                /\ h.data[k][h.max_budget].loss # NoLoss}
    IN  IF tmp # {} /\ h.repr = "float"
        THEN [err |-> "AttributeError", id |-> None]
        ELSE IF tmp = {} THEN [err |-> "ok", id |-> None]
        ELSE [err |-> "ok",
              id |-> CHOOSE k \in tmp : \A j \in tmp :
                        \/ h.data[k][h.max_budget].loss < h.data[j][h.max_budget].loss
                        \/ /\ h.data[k][h.max_budget].loss = h.data[j][h.max_budget].loss
                           /\ k <= j]

\* the run histories: the data as RunHistory.__init__ leaves them, the
\* min_budget and max_budget of HB_config
Histories ==
    {h \in [data : [HistIds -> [HistBudgets -> Entries]],
            min_budget : HistBudgets,
            max_budget : HistBudgets,
            repr : {"Result", "float"}] : h.min_budget <= h.max_budget}

HistInit ==
    /\ hpc = "drawn"
    /\ hin \in Histories
    /\ hout = << >>
    /\ ipc = "off"
    /\ idx = << >>
    /\ icmp = << >>

\* rh.get_incumbent_trajectory(all_budgets, bigger_is_better, non_decreasing_budget)
HistTrajectory(all_budgets, bigger_is_better, non_decreasing_budget) ==
    /\ hpc = "drawn"
    /\ hpc' = "trajectory"
    /\ hout' = [all_budgets |-> all_budgets, bigger_is_better |-> bigger_is_better,
                non_decreasing_budget |-> non_decreasing_budget,
                r |-> get_incumbent_trajectory(hin, all_budgets, bigger_is_better,
                                               non_decreasing_budget)]
    /\ UNCHANGED <<hin, ipc, idx, icmp>>
    /\ UNCHANGED <<bvars, cvars, mvars, lvars>>

\* rh.get_incumbent_id()
HistIncumbentId ==
    /\ hpc = "drawn"
    /\ hpc' = "incumbent_id"
    /\ hout' = get_incumbent_id(hin)
    /\ UNCHANGED <<hin, ipc, idx, icmp>>
    /\ UNCHANGED <<bvars, cvars, mvars, lvars>>

HistNext ==
    \/ \E a, b, n \in BOOLEAN : HistTrajectory(a, b, n)
    \/ HistIncumbentId

\* a RunHistory and its queries; bracket, cache and master stay as constructed
SpecHistoryInit ==
    /\ BracketFor([nc |-> <<1>>, bd |-> <<1>>, policy |-> "SH", msa |-> 1,
                   rnum |-> 1, rden |-> 2, late |-> FALSE])
    /\ CacheInit
    /\ MasterInit
    /\ LearnerInit
    /\ HistInit

SpecHistory == SpecHistoryInit /\ [][HistNext]_vars

\* ------------------------------------------------------------------------
\* RunHistory.__init__ / _merge_results.  A per-bracket map is the function
\* id -> reference of a Datum object (0: the id is not a key); heap holds the
\* Datum objects, which the maps share and _merge_results changes in place.
\* ------------------------------------------------------------------------

\* dict.update(it)
dict_update(d, it) == [k \in HistIds |-> IF it[k] # 0 THEN it[k] ELSE d[k]]

\* _merge_results, lines 143-145
RECURSIVE merge_maps(_, _)
merge_maps(new_dict, data) ==
    IF data = << >> THEN new_dict
    ELSE merge_maps(dict_update(new_dict, Head(data)), Tail(data))

\* lines 148-150 for one Datum: every time stamp of every budget minus
\* time_ref (an entry carries 'finished', and 'submitted' where the model
\* keeps it)
rebase(datum, time_ref) ==
    [b \in HistBudgets |->
        IF datum[b].present
        THEN [kkk \in DOMAIN datum[b] |->
                 IF kkk \in {"submitted", "finished"} THEN datum[b][kkk] - time_ref
                 ELSE datum[b][kkk]]
        ELSE datum[b]]

\* line 147: for k, v in new_dict.items(), the keys taken one by one
RECURSIVE rebase_items(_, _, _, _)
rebase_items(keys, new_dict, heap, time_ref) ==
    IF keys = << >> THEN heap
    ELSE LET ref == new_dict[Head(keys)]
         IN  rebase_items(Tail(keys), new_dict,
                          [heap EXCEPT ![ref] = rebase(@, time_ref)], time_ref)

\* mutant of merge_results: the time stamps are rebased map by map
RECURSIVE rebase_each_map(_, _, _)
rebase_each_map(data, heap, time_ref) ==
    IF data = << >> THEN heap
    ELSE rebase_each_map(Tail(data),
            rebase_items(SetToSeq({k \in HistIds : Head(data)[k] # 0}),
                         Head(data), heap, time_ref),
            time_ref)

merge_results_each_map(data, heap, time_ref) ==
    [data |-> merge_maps([k \in HistIds |-> 0], data),
     heap |-> rebase_each_map(data, heap, time_ref)]

\* RunHistory._merge_results: the merged dict and the heap afterwards
merge_results(data, heap, time_ref) ==
    LET new_dict == merge_maps([k \in HistIds |-> 0], data)
    IN  [data |-> new_dict,
         heap |-> rebase_items(SetToSeq({k \in HistIds : new_dict[k] # 0}),
                               new_dict, heap, time_ref)]

\* the Datum objects of the logs
MergeHeap ==
    << [b \in HistBudgets |->
          IF b = 1 THEN [present |-> TRUE, loss |-> 1, finished |-> 2] ELSE AbsentEntry],
       [b \in HistBudgets |->
          IF b = 1 THEN [present |-> TRUE, loss |-> 2, finished |-> 3] ELSE AbsentEntry],
       [b \in HistBudgets |->
          IF b = 1 THEN [present |-> TRUE, loss |-> 1, finished |-> 2]
          ELSE [present |-> TRUE, loss |-> 1, finished |-> 3]] >>

\* constructor arguments: two per-bracket maps, HB_config['time_ref'], and
\* dup, the position of the map that is passed a second time.  Every id of
\* the logs gets a Datum object of its own (line 435), so no object is stored
\* under two different ids.
MergeInputs ==
    {x \in [data : [1..2 -> [HistIds -> 0..Len(MergeHeap)]],
            heap : {MergeHeap},
            time_ref : 0..MaxTimeRef,
            dup : 1..2] :
        \A i, j \in 1..2 : \A k, l \in HistIds :
            (k # l /\ x.data[i][k] # 0) => x.data[i][k] # x.data[j][l]}

MergeInit ==
    /\ hpc = "drawn"
    /\ hin \in MergeInputs
    /\ hout = << >>
    /\ ipc = "off"
    /\ idx = << >>
    /\ icmp = << >>

\* what a reader of the RunHistory sees: id -> Datum contents
MergedView(m) ==
    [k \in HistIds |-> IF m.data[k] = 0 THEN << >> ELSE m.heap[m.data[k]]]

\* RunHistory(...) is constructed, each time from the logs as loaded, from
\* the list itself, from the list with map dup once more at its end, from
\* the list with map dup once more next to itself, and from the list with
\* map dup only at its end; and once more from the list itself as the first
\* construction left it (the Datum objects are those of the caller's maps).
\* after holds the Datum objects after the first construction.
HistMerge ==
    /\ hpc = "drawn"
    /\ hpc' = "merged"
    /\ LET d     == hin.data
           m     == d[hin.dup]
           rest  == SelectSeq(d, LAMBDA x : x # m)
           first == merge_results(d, hin.heap, hin.time_ref)
       IN  hout' = [plain    |-> MergedView(first),
                    after    |-> first.heap,
                    second   |-> MergedView(merge_results(d, first.heap, hin.time_ref)),
                    twice    |-> MergedView(merge_results(Append(d, m), hin.heap, hin.time_ref)),
                    adjacent |-> MergedView(merge_results(
                                    IF hin.dup = 1 THEN <<m>> \o d ELSE Append(d, m),
                                    hin.heap, hin.time_ref)),
                    once     |-> MergedView(merge_results(Append(rest, m), hin.heap, hin.time_ref))]
    /\ UNCHANGED <<hin, ipc, idx, icmp>>
    /\ UNCHANGED <<bvars, cvars, mvars, lvars>>

MergeNext == HistMerge

\* the RunHistory constructor; bracket, cache and master stay as constructed
SpecMergeInit ==
    /\ BracketFor([nc |-> <<1>>, bd |-> <<1>>, policy |-> "SH", msa |-> 1,
                   rnum |-> 1, rden |-> 2, late |-> FALSE])
    /\ CacheInit
    /\ MasterInit
    /\ LearnerInit
    /\ MergeInit

SpecMerge == SpecMergeInit /\ [][MergeNext]_vars

\* ------------------------------------------------------------------------
\* logged_results_to_runhistory: configs.json names the ids, results.json
\* holds one line (id, budget, time_stamps) per result; the loader keeps one
\* Datum per id, time_ref and the set of budgets, and returns
\* RunHistory([data], HB_config)
\* ------------------------------------------------------------------------

\* a budget that is no key of a loaded Datum
LoadAbsent == [present |-> FALSE, submitted |-> 0, finished |-> 0]

\* the lines of results.json: a job is submitted before it finishes
ResultLines ==
    {l \in [id : HistIds, budget : HistBudgets,
            submitted : 1..MaxTime, finished : 1..MaxTime] :
        l.submitted <= l.finished}

\* the two files of a directory
Logs ==
    [configs : SUBSET HistIds,
     results : UNION {[1..n -> ResultLines] : n \in 0..MaxLines}]

\* lines 438-449: the loop over results.json; data[id] of an id that
\* configs.json does not name raises KeyError
RECURSIVE read_results(_, _, _)
read_results(lines, configs, acc) ==
    IF lines = << >> THEN acc
    ELSE LET l == Head(lines)
         IN  IF l.id \notin configs THEN [acc EXCEPT !.err = "KeyError"]
             ELSE read_results(Tail(lines), configs,
                    [err        |-> "ok",
                     heap       |-> [acc.heap EXCEPT ![l.id][l.budget] =
                                        [present |-> TRUE, submitted |-> l.submitted,
                                         finished |-> l.finished]],
                     budget_set |-> acc.budget_set \cup {l.budget},
                     time_ref   |-> IF l.submitted < acc.time_ref THEN l.submitted
                                    ELSE acc.time_ref])

\* logged_results_to_runhistory: the Datum of id k is object k of the heap;
\* min(budget_set) of an empty set raises ValueError
logged_results_to_runhistory(dir) ==
    LET acc == read_results(dir.results, dir.configs,
                   [err        |-> "ok",
                    heap       |-> [k \in HistIds |-> [b \in HistBudgets |-> LoadAbsent]],
                    budget_set |-> {},
                    time_ref   |-> Inf])
        data == [k \in HistIds |-> IF k \in dir.configs THEN k ELSE 0]
    IN  IF acc.err # "ok" THEN [err |-> acc.err]
        ELSE IF acc.budget_set = {} THEN [err |-> "ValueError"]
        ELSE [err        |-> "ok",
              data       |-> MergedView(merge_results(<<data>>, acc.heap, acc.time_ref)),
              min_budget |-> CHOOSE b \in acc.budget_set : \A c \in acc.budget_set : b <= c,
              max_budget |-> CHOOSE b \in acc.budget_set : \A c \in acc.budget_set : b >= c,
              time_ref   |-> acc.time_ref]

LoadInit ==
    /\ hpc = "drawn"
    /\ hin \in Logs
    /\ hout = << >>
    /\ ipc = "off"
    /\ idx = << >>
    /\ icmp = << >>

\* rh = logged_results_to_runhistory(directory)
LoadCall ==
    /\ hpc = "drawn"
    /\ hpc' = "loaded"
    /\ hout' = logged_results_to_runhistory(hin)
    /\ UNCHANGED <<hin, ipc, idx, icmp>>
    /\ UNCHANGED <<bvars, cvars, mvars, lvars>>

LoadNext == LoadCall

\* the loader alone; bracket, cache and master stay as constructed
SpecLoadInit ==
    /\ BracketFor([nc |-> <<1>>, bd |-> <<1>>, policy |-> "SH", msa |-> 1,
                   rnum |-> 1, rden |-> 2, late |-> FALSE])
    /\ CacheInit
    /\ MasterInit
    /\ LearnerInit
    /\ LoadInit

SpecLoad == SpecLoadInit /\ [][LoadNext]_vars

\* ------------------------------------------------------------------------
\* SuccessiveResampling._advance_to_next_stage applied to drawn inputs: a
\* bracket of two stages whose stage counter _finish_stage has just
\* incremented (base_iteration.py, line 152), and the losses of the compared
\* candidates in data order.  hin holds the input, hout the advance vector.
\* ------------------------------------------------------------------------
AdvLosses == {1, 2, 5}
AdvCapacities == {1, 2, 3}
AdvMinSamples == {1, 2}
\* resampling_rate as <<numerator, denominator>>
AdvRates == {<<0, 1>>, <<1, 3>>, <<1, 2>>, <<1, 1>>}

AdvInputs ==
    {[b |-> advance_stage(BaseIteration(0, <<MaxCompared, cap>>, <<1, 3>>, "SR",
                                         msa, rate[1], rate[2])),
      losses |-> losses] :
        cap \in AdvCapacities, msa \in AdvMinSamples, rate \in AdvRates,
        losses \in UNION {[1..n -> AdvLosses] : n \in 0..MaxCompared}}

AdvanceInit ==
    /\ hpc = "drawn"
    /\ hin \in AdvInputs
    /\ hout = << >>
    /\ ipc = "off"
    /\ idx = << >>
    /\ icmp = << >>

\* advance = self._advance_to_next_stage(losses)  (base_iteration.py, line 166)
AdvanceCall ==
    /\ hpc = "drawn"
    /\ hpc' = "advance"
    /\ hout' = AdvanceSR(hin.b, hin.losses)
    /\ UNCHANGED <<hin, ipc, idx, icmp>>
    /\ UNCHANGED <<bvars, cvars, mvars, lvars>>

AdvanceNext == AdvanceCall

\* the advancement policy alone; bracket, cache and master stay as constructed
SpecAdvanceInit ==
    /\ BracketFor([nc |-> <<1>>, bd |-> <<1>>, policy |-> "SH", msa |-> 1,
                   rnum |-> 1, rden |-> 2, late |-> FALSE])
    /\ CacheInit
    /\ MasterInit
    /\ LearnerInit
    /\ AdvanceInit

SpecAdvance == SpecAdvanceInit /\ [][AdvanceNext]_vars

\* ------------------------------------------------------------------------
\* BanditLearner._get_next_structure, one step per bracket asked, pulled by
\* the repetition loop of Master.optimize
\* ------------------------------------------------------------------------

\* loss values the jobs of the learner's candidates report; which candidate
\* of a bracket advances is the subject of Spec, not of the learner
LearnerLosses == {1}

\* the brackets the factory _get_next_iteration may build: successive halving
\* ladders
LearnerSetups ==
    { [nc |-> <<1>>,    bd |-> <<1>>,    policy |-> "SH", msa |-> 1, rnum |-> 1, rden |-> 2],
      [nc |-> <<2, 1>>, bd |-> <<1, 3>>, policy |-> "SH", msa |-> 1, rnum |-> 1, rden |-> 2] }

\* the subclass's _get_next_iteration(iteration, ...): a bracket whose
\* CandidateIds carry the list index shifted by the offset of the last reset
get_next_iteration(iteration, off, s) ==
    BaseIteration(iteration + off, s.nc, s.bd, s.policy, s.msa, s.rnum, s.rden)

\* mutant of next_unfinished: finished brackets are not filtered out
next_any(its, j) ==
    IF j <= Len(its) - 1 THEN j ELSE -1

\* line 62: the next index the filter over range(len(self.iterations)) lets
\* through, from position j on; -1 when the loop is over
next_unfinished(its, j) ==
    LET S == {i \in j..(Len(its) - 1) : ~its[i + 1].is_finished}
    IN  IF S = {} THEN -1 ELSE Min(S)

\* mutant of may_create: the creation budget is not consulted
may_create_always(n) == TRUE

\* line 71: if n_iterations > 0
may_create(n) == n > 0

\* mutant of offset_update: the offset is not advanced
offset_update_none(off, its) == off

\* master.py, line 194: offset += sum([len(it.data) for it in iterations])
offset_update(off, its) ==
    off + SumOver([i \in 1..Len(its) |-> Len(its[i].data)], 1..Len(its))

\* the subclass's reset(offset): the bracket-creation state is reset, the
\* offset is kept for the brackets to come
reset(off) == [iterations |-> << >>, offset |-> off]

\* master.py, lines 190-192: the next repetition resets the learner and starts
\* the generator (line 58: n_iterations = self.max_iterations); the jobs of
\* the brackets dropped are no longer followed
LReset ==
    /\ gpc = "reset"
    /\ lrepetition < MaxRepetitions
    /\ iterations' = reset(offset).iterations
    /\ learner_offset' = reset(offset).offset
    /\ lheap' = << >>
    /\ pending' = {}
    /\ n_iterations' = MaxIterations
    /\ ncreated' = 0
    /\ cursor' = 0
    /\ asked' = << >>
    /\ gpc' = "scan"
    /\ UNCHANGED <<yielded, offset, lrepetition, ltimeout, issued>>
    /\ UNCHANGED <<bvars, cvars, mvars, pvars>>

\* lines 62-65: the scan asks the next unfinished bracket; lines 67-69: a
\* candidate that is not None ends the scan and is yielded with the index
LAsk ==
    /\ gpc = "scan"
    /\ LET i == next_unfinished(iterations, cursor)
       IN  /\ i >= 0
           /\ LET r   == get_next_candidate(iterations[i + 1], lheap, << >>)
                  new == Len(lheap) + 1
                  key == CHOOSE k \in 1..Len(r.b.data) : r.b.data[k] = new
              IN  /\ iterations' = [iterations EXCEPT ![i + 1] = r.b]
                  /\ lheap' = r.c
                  /\ asked' = Append(asked,
                         [i |-> i, ret |-> r.ret,
                          was_finished |-> iterations[i + 1].is_finished])
                  /\ gpc' = IF r.err # "ok" THEN "raised"
                            ELSE IF r.ret # None THEN "yielded" ELSE "scan"
                  /\ yielded' = IF r.err = "ok" /\ r.ret # None
                                THEN [c |-> r.ret, i |-> i] ELSE NoPair
                  /\ cursor' = i + 1
                  /\ issued' = IF Len(r.c) > Len(lheap)
                               THEN issued \cup
                                    {[rep |-> lrepetition,
                                      id |-> <<r.b.iteration, key - 1>>]}
                               ELSE issued
    /\ UNCHANGED <<learner_offset, n_iterations, pending, offset, lrepetition,
                   ltimeout, ncreated>>
    /\ UNCHANGED <<bvars, cvars, mvars, pvars>>

\* lines 70-75: no candidate and creation budget left: the next bracket is
\* appended and the scan starts over
LCreate(s) ==
    /\ gpc = "scan"
    /\ next_unfinished(iterations, cursor) = -1
    /\ may_create(n_iterations)
    /\ iterations' = Append(iterations,
                            get_next_iteration(Len(iterations), learner_offset, s))
    /\ n_iterations' = n_iterations - 1
    /\ ncreated' = ncreated + 1
    /\ cursor' = 0
    /\ asked' = << >>
    /\ UNCHANGED <<lheap, learner_offset, gpc, yielded, pending, offset,
                   lrepetition, ltimeout, issued>>
    /\ UNCHANGED <<bvars, cvars, mvars, pvars>>

\* lines 76-78: no candidate and no creation budget: the generator ends and
\* _optimize returns False (master.py, line 175)
LEnd ==
    /\ gpc = "scan"
    /\ next_unfinished(iterations, cursor) = -1
    /\ ~may_create(n_iterations)
    /\ gpc' = "ended"
    /\ UNCHANGED <<iterations, lheap, learner_offset, n_iterations, cursor, asked,
                   yielded, pending, offset, lrepetition, ltimeout, ncreated, issued>>
    /\ UNCHANGED <<bvars, cvars, mvars, pvars>>

\* master.py, lines 151-174 with the deadline not reached: the candidate's job
\* is submitted and the for loop resumes the generator, which starts a scan
LResume ==
    /\ gpc = "yielded"
    /\ pending' = pending \cup {yielded}
    /\ yielded' = NoPair
    /\ gpc' = "scan"
    /\ cursor' = 0
    /\ asked' = << >>
    /\ UNCHANGED <<iterations, lheap, learner_offset, n_iterations, offset,
                   lrepetition, ltimeout, ncreated, issued>>
    /\ UNCHANGED <<bvars, cvars, mvars, pvars>>

\* master.py, lines 169-172: the deadline has passed, _optimize returns True
LDeadline ==
    /\ gpc = "yielded"
    /\ gpc' = "timeout"
    /\ UNCHANGED <<iterations, lheap, learner_offset, n_iterations, cursor, asked,
                   yielded, pending, offset, lrepetition, ltimeout, ncreated, issued>>
    /\ UNCHANGED <<bvars, cvars, mvars, pvars>>

\* master.py, lines 192-194 and the loop test of line 189
LAfterOptimize ==
    /\ gpc \in {"ended", "timeout"}
    /\ ltimeout' = (gpc = "timeout")
    /\ lrepetition' = lrepetition + 1
    /\ offset' = offset_update(offset, iterations)
    /\ gpc' = IF gpc = "timeout" THEN "stopped" ELSE "reset"
    /\ UNCHANGED <<iterations, lheap, learner_offset, n_iterations, cursor, asked,
                   yielded, pending, ncreated, issued>>
    /\ UNCHANGED <<bvars, cvars, mvars, pvars>>

\* Master._result_callback for the job of a yielded candidate: lines 226 and
\* 228, the result going to the bracket the candidate was yielded with
\* (base_bandit_learner.py, line 54); an exception is caught (line 232)
LRegister(p, loss) ==
    /\ p \in pending
    /\ LET r == result_callback(iterations[p.i + 1], lheap, p.c, loss)
       IN  /\ iterations' = [iterations EXCEPT ![p.i + 1] = r.b]
           /\ lheap' = r.c
    /\ pending' = pending \ {p}
    /\ UNCHANGED <<learner_offset, n_iterations, gpc, cursor, asked, yielded,
                   offset, lrepetition, ltimeout, ncreated, issued>>
    /\ UNCHANGED <<bvars, cvars, mvars, pvars>>

LearnerNext ==
    \/ LReset
    \/ LAsk
    \/ \E s \in LearnerSetups : LCreate(s)
    \/ LEnd
    \/ LResume
    \/ LDeadline
    \/ LAfterOptimize
    \/ \E p \in pending, loss \in LearnerLosses : LRegister(p, loss)

\* the learner and the repetition loop; bracket, cache and master stay as
\* constructed
SpecLearnerInit ==
    /\ BracketFor([nc |-> <<1>>, bd |-> <<1>>, policy |-> "SH", msa |-> 1,
                   rnum |-> 1, rden |-> 2, late |-> FALSE])
    /\ CacheInit
    /\ MasterInit
    /\ LearnerInit
    /\ PureIdle

SpecLearner == SpecLearnerInit /\ [][LearnerNext]_vars

\* ------------------------------------------------------------------------
\* BanditLearner.optimize: the synchronous loop over _get_next_structure,
\* every candidate evaluated and registered before the next one is pulled
\* ------------------------------------------------------------------------

\* loss values the evaluations of optimize report
OptLosses == {1, 2}

\* the brackets the factory may build for optimize: halving and resampling
\* ladders
OptSetups ==
    LearnerSetups \cup
    { [nc |-> <<2, 2>>, bd |-> <<1, 3>>, policy |-> "SR", msa |-> 1, rnum |-> 1, rden |-> 2] }

\* the sampling engine's optimize(starter, candidate): the evaluation leaves a
\* result at the candidate's budget
cg_optimize(c, ref, loss) == [c EXCEPT ![ref] = add_result(@, loss)]

\* line 50: the for loop starts the generator (line 58)
OStart ==
    /\ gpc = "reset"
    /\ n_iterations' = MaxIterations
    /\ gpc' = "scan"
    /\ UNCHANGED <<iterations, lheap, learner_offset, cursor, asked, yielded,
                   pending, offset, lrepetition, ltimeout, ncreated, issued>>
    /\ UNCHANGED <<bvars, cvars, mvars, pvars>>

\* the generator creates at most one bracket more than its budget allows
\* before the model stops following it
OCreate(s) ==
    /\ Len(iterations) <= MaxIterations
    /\ LCreate(s)

\* lines 51-55: the yielded candidate is evaluated, registered with
\* self.iterations[iteration], and the loop resumes the generator; an
\* exception of register_result leaves optimize
ORegister(loss) ==
    /\ gpc = "yielded"
    /\ LET r == register_result(iterations[yielded.i + 1],
                                cg_optimize(lheap, yielded.c, loss), yielded.c)
       IN  /\ iterations' = [iterations EXCEPT ![yielded.i + 1] = r.b]
           /\ lheap' = r.c
           /\ gpc' = IF r.err = "ok" THEN "scan" ELSE "raised"
    /\ yielded' = NoPair
    /\ cursor' = 0
    /\ asked' = << >>
    /\ UNCHANGED <<learner_offset, n_iterations, pending, offset, lrepetition,
                   ltimeout, ncreated, issued>>
    /\ UNCHANGED <<bvars, cvars, mvars, pvars>>

OptimizeNext ==
    \/ OStart
    \/ LAsk
    \/ \E s \in OptSetups : OCreate(s)
    \/ LEnd
    \/ \E loss \in OptLosses : ORegister(loss)

SpecOptimizeInit ==
    /\ BracketFor([nc |-> <<1>>, bd |-> <<1>>, policy |-> "SH", msa |-> 1,
                   rnum |-> 1, rden |-> 2, late |-> FALSE])
    /\ CacheInit
    /\ MasterInit
    /\ LearnerInit
    /\ PureIdle

\* LAsk can be taken: the scan has an unfinished bracket left to ask
\* (get_next_candidate itself always returns or raises)
LAskEnabled == gpc = "scan" /\ next_unfinished(iterations, cursor) >= 0

\* optimize is one sequential thread: each of its steps is taken when it is
\* the step the thread is at (weak fairness per step; for LAsk written with
\* its enabling condition spelled out)
OptFairness ==
    /\ WF_vars(OStart)
    /\ WF_vars(\E s \in OptSetups : OCreate(s))
    /\ WF_vars(LEnd)
    /\ WF_vars(\E loss \in OptLosses : ORegister(loss))
    /\ ([]<>(~LAskEnabled) \/ []<><<LAsk>>_vars)

SpecOptimize == SpecOptimizeInit /\ [][OptimizeNext]_vars /\ OptFairness

\* ------------------------------------------------------------------------
\* Claims
\* ------------------------------------------------------------------------

\* C1: for every bracket and every stage s, in every reachable state,
\* actual_num_candidates[s] <= num_candidates[s]
C1_ActualWithinCapacity ==
    \A s \in 1..Len(bracket.num_candidates) :
        bracket.actual_num_candidates[s] <= bracket.num_candidates[s]

\* the _finish_stage events of the last call that compared candidates and
\* promoted (non-final, no exception)
Compared == {i \in 1..Len(log) : ~log[i].final /\ log[i].err = "ok"}

\* incumbent loss, before the event, of the i-th compared candidate at the
\* budget of the stage just finished
LossBefore(e, i) == get_incumbent(e.pre[e.refs[i]], bracket.budgets[e.stage])

Smaller(a, b) == IF a <= b THEN a ELSE b

\* C3: under successive halving, when _finish_stage compares n REVIEW
\* candidates while moving to stage t, exactly min(n, num_candidates[t]) of them
\* become QUEUED and no TERMINATED one has a strictly lower incumbent loss than
\* a QUEUED one; with num_candidates=[4,2,1], budgets=[1,3,9] and stage-0 losses
\* [0.5,0.2,0.9,0.1] exactly the candidates with losses 0.1 and 0.2 are
\* promoted to budget 3 and the other two are TERMINATED
C3_HalvingKeepsBest ==
    bracket.policy = "SH" =>
    \A k \in Compared :
        LET e  == log[k]
            n  == Len(e.refs)
            st(i) == e.post[e.refs[i]].status
        IN  /\ Cardinality({i \in 1..n : st(i) = "QUEUED"})
                 = Smaller(n, bracket.num_candidates[e.stage + 1])
            /\ \A i, j \in 1..n :
                 (st(i) = "TERMINATED" /\ st(j) = "QUEUED")
                     => ~(LossBefore(e, i) < LossBefore(e, j))
            /\ ( /\ bracket.num_candidates = <<4, 2, 1>>
                 /\ bracket.budgets = <<1, 3, 9>>
                 /\ e.stage = 1
                 /\ [i \in 1..n |-> LossBefore(e, i)] = <<5, 2, 9, 1>> )
               => /\ st(1) = "TERMINATED" /\ st(3) = "TERMINATED"
                  /\ st(2) = "QUEUED" /\ e.post[e.refs[2]].budget = 3
                  /\ st(4) = "QUEUED" /\ e.post[e.refs[4]].budget = 3

\* C3 witness: the bracket [4,2,1]/[1,3,9] has just compared four candidates
\* with losses 0.5, 0.2, 0.9, 0.1
C3_Witness ==
    /\ bracket.policy = "SH"
    /\ bracket.num_candidates = <<4, 2, 1>>
    /\ \E k \in Compared :
          /\ log[k].stage = 1
          /\ Len(log[k].refs) = 4
          /\ [i \in 1..4 |-> LossBefore(log[k], i)] = <<5, 2, 9, 1>>

\* C4: after a non-final _finish_stage the candidates changed to QUEUED are
\* exactly the REVIEW candidates whose advance entry is true, each with the new
\* stage's budget; actual_num_candidates[new stage] grew by their number; every
\* other compared candidate is TERMINATED; all other candidates are unchanged
C4_FinishStageEffect ==
    \A k \in Compared :
        LET e    == log[k]
            n    == Len(e.refs)
            all  == {e.refs[i] : i \in 1..n}
            up   == {e.refs[i] : i \in {j \in 1..n : e.advance[j]}}
            newQ == {r \in 1..Len(e.pre) :
                        e.pre[r].status # "QUEUED" /\ e.post[r].status = "QUEUED"}
        IN  /\ \A r \in all : e.pre[r].status = "REVIEW"
            /\ newQ = up
            /\ \A r \in up : e.post[r].budget = bracket.budgets[e.stage + 1]
            /\ e.post_actual[e.stage + 1] = e.pre_actual[e.stage + 1] + Cardinality(up)
            /\ \A s \in 1..Len(e.pre_actual) :
                  s # e.stage + 1 => e.post_actual[s] = e.pre_actual[s]
            /\ \A r \in all \ up : e.post[r].status = "TERMINATED"
            /\ \A r \in 1..Len(e.pre) : r \notin all => e.post[r] = e.pre[r]

\* C4 witness: a comparison that promoted one candidate, terminated another
\* and left a third, not compared, candidate alone
C4_Witness ==
    \E k \in Compared :
        LET e == log[k]
        IN  /\ \E i, j \in 1..Len(e.refs) : e.advance[i] /\ ~e.advance[j]
            /\ \E r \in 1..Len(e.pre) : \A i \in 1..Len(e.refs) : e.refs[i] # r

\* C5: every candidate returned by get_next_candidate, carried over or newly
\* created, has budget = budgets[stage] of the current stage when returned, and
\* the 'Config budget does not align with current stage' assertion never fails
C5_ReturnedBudgetAligned ==
    /\ err # "AssertionError_budget"
    /\ (op = "get_next_candidate" /\ ret.ref > 0) => ret.budget = ret.stage_budget

\* C5 witness: a carried-over candidate was returned in a later stage
C5_Witness ==
    /\ op = "get_next_candidate"
    /\ ret.ref > 0
    /\ bracket.stage > 0
    /\ Len(ran[ret.ref]) = 2

\* the last stage is exhausted: its slots are filled, nothing is queued and
\* every candidate handed out has had its result registered
LastStageDone ==
    /\ ~bracket.is_finished
    /\ bracket.stage = Len(bracket.num_candidates) - 1
    /\ bracket.actual_num_candidates[bracket.stage + 1]
          >= bracket.num_candidates[bracket.stage + 1]
    /\ KeysWithStatus(bracket, cands, "QUEUED") = {}
    /\ outstanding = {}

AllCompleted ==
    \A k \in 1..Len(bracket.data) : cands[bracket.data[k]].status = "COMPLETED"

C7_RegisterOnFinishedFails ==
    [][ (bracket.is_finished /\ op' = "register_result")
          => ( /\ err' = "RuntimeError"
               /\ bracket' = bracket
               /\ Len(cands') = Len(cands)
               /\ \A r \in 1..Len(cands) :
                     /\ cands'[r].status = cands[r].status
                     /\ cands'[r].budget = cands[r].budget ) ]_vars

\* C7 witness: a callback arrived at a finished bracket and was refused
C7_Witness ==
    /\ bracket.is_finished
    /\ op = "register_result"
    /\ err = "RuntimeError"

IsStrictlyIncreasing(q) == \A i, j \in 1..Len(q) : i < j => q[i] < q[j]

\* C8: with a strictly increasing budgets ladder, the budgets at which one
\* candidate is returned by successive get_next_candidate calls are strictly
\* increasing
C8_BudgetsIncreasePerCandidate ==
    IsStrictlyIncreasing(bracket.budgets) =>
        \A r \in 1..Len(ran) : IsStrictlyIncreasing(ran[r])

\* C8 witness: a candidate was handed out three times on an increasing ladder
C8_Witness ==
    /\ IsStrictlyIncreasing(bracket.budgets)
    /\ \E r \in 1..Len(ran) : Len(ran[r]) = 3

\* C2: concurrent get calls with the same not yet cached search space invoke
\* the engine factory exactly once for it and all receive the same engine
C2_SingleFlight ==
    /\ \A k \in Keys : built[k] <= 1
    /\ \A t, u \in Threads :
          (got[t] # 0 /\ got[u] # 0 /\ ckey[t] = ckey[u]) => got[t] = got[u]

\* C9: all mutation of bracket state is mutually exclusive: the decision
\* loop's pull of the next candidate never overlaps with a completion
\* callback's register_result path, and two callbacks never overlap
C9_MutualExclusion ==
    /\ Cardinality({j \in 1..Len(jobs) : jobs[j] \in {"callback", "registering"}}) <= 1
    /\ ~(mpc = "pulling" /\ \E j \in 1..Len(jobs) : jobs[j] \in {"callback", "registering"})

\* C10: the deadline is checked before every job submission; once a check
\* finds it exceeded, no job is submitted any more, dispatcher.finish_work has
\* been called, and the repetition loop exits without another repetition
C10_DeadlineStopsSubmission ==
    [][ /\ (Len(jobs') > Len(jobs)) => (checked /\ ~seen)
        /\ seen => Len(jobs') = Len(jobs)
        /\ seen => resets' = resets
        /\ seen' => (finish_work' /\ mpc' \in {"finish_work", "returned", "loop", "load", "done"}) ]_vars

\* C10 witness: the deadline was found exceeded after jobs were submitted and
\* the loop has exited without an interrupt
C10_Witness ==
    /\ seen
    /\ ~interrupted
    /\ mpc = "done"
    /\ Len(jobs) > 0

\* C11: every job submitted before the deadline was found exceeded has its
\* completion callback run to its end before optimize loads the logs: when
\* the loop is left without an interrupt no job is in flight, load() returns
\* the result of every submitted job, and a callback that ends without an
\* exception has logged the result, appended it to the candidate and
\* registered it with cache, bracket and structure generator
C11_TimeoutDrains ==
    [][ /\ (mpc' = "load" /\ ~interrupted') => (seen' /\ Drained')
        /\ (mpc = "load" /\ mpc' = "done" /\ ~interrupted) =>
               loaded' = 1..Len(jobs)
        /\ \A j \in 1..Len(jobs) :
               (jobs[j] # "done" /\ jobs'[j] = "done") =>
                  /\ cb'.job = j
                  /\ cb'.logged /\ cb'.added /\ cb'.cache /\ cb'.bracket /\ cb'.sg ]_vars

\* C11 witness: a callback entered after the deadline was found exceeded has
\* registered its result, and the logs loaded afterwards contain it
C11_Witness ==
    /\ mpc = "done"
    /\ ~interrupted
    /\ cb.seen /\ cb.bracket /\ cb.sg
    /\ cb.job \in loaded
    /\ loaded = 1..Len(jobs)

\* C12: after a KeyboardInterrupt in the main loop the dispatcher has been
\* told to stop accepting work and every dispatched job's callback has
\* finished before the results are loaded and returned
C12_InterruptDrains ==
    (interrupted /\ mpc = "done" /\ Len(jobs) > 0) =>
        (finish_work /\ loaded = 1..Len(jobs) /\ Drained)

C14_FailedCallbackLeavesNoTrace ==
    cb.raised =>
        /\ jobs[cb.job] = "failed" /\ lock # cb.job
        /\ ~cb.logged /\ ~cb.added /\ ~cb.cache /\ ~cb.bracket /\ ~cb.sg

\* C15: ConfigGeneratorCache.register_result hands the job to the engine
\* cached for the job's search space and to no other; without a cached engine
\* it returns normally; in both cases no engine is constructed and the cache
\* is unchanged
C15_RegisterRoutesOrNoOp ==
    [][ <<creg, routed>>' # <<creg, routed>> =>
          /\ creg'.err = "ok"
          /\ cache' = cache
          /\ built' = built
          /\ routed' = [e \in Engines |->
                          IF cache[creg'.key] = e THEN 1 ELSE 0] ]_vars

\* C15 witness: a call for a search space without engine has come back
\* normally while two engines had been built for the other search space
C15_Witness ==
    /\ creg.key # 0 /\ creg.err = "ok"
    /\ cache[creg.key] = 0 /\ built[creg.key] = 0
    /\ \A e \in Engines : routed[e] = 0
    /\ \E k \in Keys : built[k] = 2

\* lexicographic order of (iteration, structure, config), field by field
LexLess(x, y) ==
    \/ x.iteration < y.iteration
    \/ x.iteration = y.iteration /\ x.structure < y.structure
    \/ x.iteration = y.iteration /\ x.structure = y.structure /\ x.config < y.config

\* C16: < on CandidateId is the lexicographic order of (iteration, structure,
\* config): irreflexive, transitive, different tuples ordered in exactly one
\* direction; == holds iff the tuples are equal and equal ids hash equal;
\* (0,1,2) < (0,2,0) < (1,0,0)
C16_IdOrderIsLexicographic ==
    ipc = "compared" =>
        /\ \A i, j \in 1..3 : icmp[i][j].lt <=> LexLess(idx[i], idx[j])
        /\ \A i \in 1..3 : ~icmp[i][i].lt
        /\ \A i, j, k \in 1..3 : (icmp[i][j].lt /\ icmp[j][k].lt) => icmp[i][k].lt
        /\ \A i, j \in 1..3 :
              /\ icmp[i][j].eq <=> (idx[i] = idx[j])
              /\ icmp[i][j].eq => icmp[i][j].hash_eq
              /\ ~icmp[i][j].eq => (icmp[i][j].lt <=> ~icmp[j][i].lt)
        /\ idx = << [iteration |-> 0, structure |-> 1, config |-> 2],
                    [iteration |-> 0, structure |-> 2, config |-> 0],
                    [iteration |-> 1, structure |-> 0, config |-> 0] >>
              => (icmp[1][2].lt /\ icmp[2][3].lt)

\* C16 witness: the ids (0,1,2), (0,2,0), (1,0,0) have been compared
C16_Witness ==
    /\ ipc = "compared"
    /\ idx = << [iteration |-> 0, structure |-> 1, config |-> 2],
                [iteration |-> 0, structure |-> 2, config |-> 0],
                [iteration |-> 1, structure |-> 0, config |-> 0] >>
    /\ icmp[1][2].lt /\ icmp[2][3].lt /\ icmp[1][3].lt

\* C17: a RunHistory built from a list in which one per-bracket map occurs
\* twice has the same merged map (keys, results, rebased time stamps) as one
\* built from the list with that map once; where two maps share a key, the
\* record of the later map is kept
C17_MergeIdempotentLastWins ==
    hpc = "merged" =>
        /\ hout.twice = hout.once
        /\ hout.adjacent = hout.plain
        /\ \A k \in HistIds :
              LET ref == IF hin.data[2][k] # 0 THEN hin.data[2][k] ELSE hin.data[1][k]
              IN  hout.plain[k] =
                     IF ref = 0 THEN << >> ELSE rebase(hin.heap[ref], hin.time_ref)

\* C17 witness: two maps with different records under one id, a time
\* reference to subtract, the first map passed a second time
C17_Witness ==
    /\ hpc = "merged"
    /\ hin.time_ref > 0
    /\ hin.dup = 1
    /\ \E k \in HistIds :
          /\ hin.data[1][k] # 0 /\ hin.data[2][k] # 0
          /\ hin.data[1][k] # hin.data[2][k]
          /\ hout.plain[k] # hout.twice[k]

\* C18: with bigger_is_better and non_decreasing_budget the budgets of the
\* returned trajectory, the closing point included, never decrease
C18_TrajectoryBudgetsNonDecreasing ==
    (hpc = "trajectory" /\ hout.bigger_is_better /\ hout.non_decreasing_budget) =>
        \A i, j \in 1..Len(hout.r.points) :
            i < j => hout.r.points[i].budget <= hout.r.points[j].budget

\* C18 witness: a trajectory that climbs from budget 1 to budget 3, ends with
\* the closing point, and a later run on budget 1 with a smaller loss that
\* did not become the incumbent
C18_Witness ==
    /\ hpc = "trajectory" /\ hout.bigger_is_better /\ hout.non_decreasing_budget
    /\ Len(hout.r.points) >= 3
    /\ hout.r.points[1].budget = 1
    /\ hout.r.points[Len(hout.r.points)].budget = 3
    /\ hout.r.points[Len(hout.r.points)].run = 0
    /\ \E i \in 1..Len(hout.r.all_runs) :
          /\ hout.r.all_runs[i].budget = 1
          /\ hout.r.all_runs[i].loss # NoLoss
          /\ hout.r.all_runs[i].loss < hout.r.points[Len(hout.r.points)].loss
          /\ \E p \in 1..Len(hout.r.points) :
                hout.r.points[p].budget = 3 /\ hout.r.points[p].run \in 1..(i - 1)

\* the ids with a result that is not None at the maximum budget
AtMaxBudget(h) ==
    {k \in HistIds : /\ h.data[k][h.max_budget].present
                     /\ h.data[k][h.max_budget].loss # NoLoss}

\* C19: get_incumbent_id returns an id whose result at the maximum budget
\* has the smallest loss among the ids with a result at the maximum budget,
\* and None exactly when there is no such id
C19_IncumbentIdIsArgmin ==
    hpc = "incumbent_id" =>
        /\ hout.err = "ok"
        /\ (hout.id = None) <=> (AtMaxBudget(hin) = {})
        /\ hout.id # None =>
              /\ hout.id \in AtMaxBudget(hin)
              /\ \A j \in AtMaxBudget(hin) :
                    hin.data[hout.id][hin.max_budget].loss
                        <= hin.data[j][hin.max_budget].loss

\* the points of the trajectory that stem from an accepted run
AcceptedPoints == SelectSeq(hout.r.points, LAMBDA p : p.run # 0)

\* C20: when a run was accepted, the trajectory ends at the finish time of
\* the last run in finish-time order: if the last accepted run is not the
\* last run scanned, exactly one point follows the accepted ones, repeating
\* the last incumbent's id, budget and loss at the last run's finish time;
\* otherwise no point follows
C20_TrajectoryEndsAtLastRun ==
    (hpc = "trajectory" /\ AcceptedPoints # << >>) =>
        LET pts  == hout.r.points
            runs == hout.r.all_runs
            acc  == AcceptedPoints
            last == acc[Len(acc)]
        IN  /\ hout.r.err = "ok"
            /\ pts[Len(pts)].finished = runs[Len(runs)].finished
            /\ pts = IF last.run # Len(runs)
                     THEN Append(acc, [last EXCEPT !.finished = runs[Len(runs)].finished,
                                                   !.run = 0])
                     ELSE acc

\* C22: within one bracket every newly created candidate receives a
\* CandidateId that is not yet a key of the data map, so adding a candidate
\* never overwrites an existing one, also when _add_candidate fills free slots
\* of a stage > 0 after promotions: every candidate the bracket created is
\* still a value of its data map
C22_AddNeverOverwrites ==
    \A r \in 1..Len(cands) : \E k \in 1..Len(bracket.data) : bracket.data[k] = r

\* C23: in every reachable state of a bracket, num_running equals the number
\* of its candidates whose status is RUNNING, and is never negative, also
\* when one candidate is dispatched as several jobs that each register a
\* result
C23_NumRunningCountsRunning ==
    /\ bracket.num_running = Cardinality(KeysWithStatus(bracket, cands, "RUNNING"))
    /\ bracket.num_running >= 0

\* the edges of the lifecycle graph, by the operation that may take them
LifecycleEdge(a, b, by) ==
    \/ by = "get_next_candidate" /\ a = "QUEUED" /\ b = "RUNNING"
    \/ by = "register_result" /\ a = "RUNNING" /\ b = "REVIEW"
    \/ by = "_finish_stage" /\ a = "REVIEW" /\ b \in {"QUEUED", "TERMINATED"}
    \/ by = "_finish_up" /\ a \in {"TERMINATED", "REVIEW", "CRASHED"} /\ b = "COMPLETED"

\* every status change from heap h to heap g is an edge of operation by;
\* objects created in between start QUEUED
FollowsLifecycle(h, g, by) ==
    \A r \in 1..Len(g) :
        LET a == IF r <= Len(h) THEN h[r].status ELSE "QUEUED"
        IN  a # g[r].status => LifecycleEdge(a, g[r].status, by)

\* C24: every change of a candidate's status inside a bracket follows one
\* edge of the lifecycle graph: QUEUED->RUNNING (get_next_candidate),
\* RUNNING->REVIEW (register_result), REVIEW->QUEUED or REVIEW->TERMINATED
\* (_finish_stage), TERMINATED/REVIEW/CRASHED->COMPLETED (_finish_up); so
\* register_result never moves a candidate that is not RUNNING into REVIEW and
\* a TERMINATED candidate is never run again.  A get_next_candidate call is
\* followed through its _finish_stage events.
C24_StatusFollowsLifecycle ==
    [][ IF op' = "register_result"
        THEN FollowsLifecycle(cands, cands', "register_result")
        ELSE /\ \A k \in 1..Len(log') :
                   FollowsLifecycle(log'[k].pre, log'[k].post,
                       IF log'[k].final THEN "_finish_up" ELSE "_finish_stage")
             /\ FollowsLifecycle(IF log' = << >> THEN cands
                                 ELSE log'[Len(log')].post,
                                 cands', "get_next_candidate") ]_vars

\* C25: get_next_candidate advances the stage only when no candidate of the
\* bracket is QUEUED or RUNNING and the current stage's slots are all filled;
\* so whenever _finish_up runs, every candidate has a status in {TERMINATED,
\* REVIEW, CRASHED} and its assertion never fails
C25_StageAdvancesWhenQuiet ==
    \A k \in 1..Len(log) :
        LET e == log[k]
        IN  /\ \A r \in 1..Len(e.pre) : e.pre[r].status \notin {"QUEUED", "RUNNING"}
            /\ e.pre_actual[e.stage] >= bracket.num_candidates[e.stage]
            /\ e.final => /\ e.err = "ok"
                          /\ \A r \in 1..Len(e.pre) :
                                e.pre[r].status \in {"TERMINATED", "REVIEW", "CRASHED"}

\* C26: whenever _finish_stage compares candidates (non-final stage), all
\* REVIEW candidates it collects have one and the same budget, that budget is
\* budgets[stage just finished], and each has at least one result stored under
\* it; so neither the 'Not all configurations have the same budget' error nor
\* a failed incumbent lookup occurs
C26_ComparedShareStageBudget ==
    \A k \in 1..Len(log) :
        LET e == log[k]
        IN  ~e.final =>
              /\ e.err = "ok"
              /\ \A i \in 1..Len(e.refs) :
                    /\ e.pre[e.refs[i]].budget = bracket.budgets[e.stage]
                    /\ ResultsAt(e.pre[e.refs[i]], bracket.budgets[e.stage]) # {}

\* the acceptance rule as C30 states it, applied to the runs from position i
\* on with the running values cur (loss) and ib (budget): the positions of the
\* accepted runs
RECURSIVE AcceptedByRule(_, _, _, _, _, _)
AcceptedByRule(runs, i, cur, ib, bigger_is_better, non_decreasing_budget) ==
    IF i > Len(runs) THEN << >>
    ELSE LET r      == runs[i]
             accept == /\ r.loss # NoLoss
                       /\ \/ bigger_is_better /\ r.budget > ib
                          \/ r.loss < cur
                       /\ ~(non_decreasing_budget /\ r.budget < ib)
         IN  IF accept
             THEN <<i>> \o AcceptedByRule(runs, i + 1, r.loss, r.budget,
                                          bigger_is_better, non_decreasing_budget)
             ELSE AcceptedByRule(runs, i + 1, cur, ib,
                                 bigger_is_better, non_decreasing_budget)

\* C30: get_incumbent_trajectory scans the runs with a loss in finish-time
\* order, starting from loss +infinity and budget min_budget; a run becomes a
\* trajectory point iff ((bigger_is_better and its budget > incumbent budget)
\* or its loss < current loss) and not (non_decreasing_budget and its budget <
\* incumbent budget); each acceptance sets both running values to the run's
\* loss and budget.  The points before the closing point are exactly the runs
\* the rule accepts, in order, each with the run's id, time, budget and loss.
C30_TrajectoryAcceptanceRule ==
    (hpc = "trajectory" /\ hout.r.err = "ok") =>
        LET runs == hout.r.all_runs
            acc  == AcceptedByRule(runs, 1, Inf, hin.min_budget,
                                   hout.bigger_is_better, hout.non_decreasing_budget)
        IN  /\ \A i, j \in 1..Len(runs) : i < j => runs[i].finished <= runs[j].finished
            /\ Len(AcceptedPoints) = Len(acc)
            /\ \A k \in 1..Len(acc) :
                  /\ AcceptedPoints[k].run = acc[k]
                  /\ AcceptedPoints[k].config_id = runs[acc[k]].config_id
                  /\ AcceptedPoints[k].finished = runs[acc[k]].finished
                  /\ AcceptedPoints[k].budget = runs[acc[k]].budget
                  /\ AcceptedPoints[k].loss = runs[acc[k]].loss

\* C30 witness: a scan that accepted a run for its bigger budget although its
\* loss was worse, rejected a later run with a better loss for its smaller
\* budget, and rejected a run that tied the current loss
C30_Witness ==
    /\ hpc = "trajectory" /\ hout.r.err = "ok"
    /\ hout.bigger_is_better /\ hout.non_decreasing_budget
    /\ LET runs == hout.r.all_runs
           pts  == AcceptedPoints
       IN  /\ Len(runs) = 4
           /\ Len(pts) = 2
           /\ pts[1].run = 1 /\ pts[2].run = 2
           /\ pts[2].budget > pts[1].budget /\ pts[2].loss > pts[1].loss
           /\ runs[3].loss # NoLoss /\ runs[3].loss < pts[2].loss
           /\ runs[3].budget < pts[2].budget
           /\ runs[4].loss = pts[2].loss /\ runs[4].budget = pts[2].budget

\* the threshold max(min_samples_advance, num_candidates[t] * (1 -
\* resampling_rate)) of bracket b, multiplied by the rate's denominator
AdvThreshold(b) ==
    LET a == b.min_samples_advance * b.rate_den
        f == b.num_candidates[b.stage + 1] * (b.rate_den - b.rate_num)
    IN  IF a >= f THEN a ELSE f

\* candidate i is listed before j in the order by loss, then by position
ListedBefore(losses, i, j) ==
    \/ losses[i] < losses[j]
    \/ losses[i] = losses[j] /\ i < j

\* the advanced candidates are the first count ones in the order by loss,
\* ties broken by position
AdvancesFirst(losses, advance, count) ==
    \A i \in 1..Len(losses) :
        advance[i] <=>
            Cardinality({j \in 1..Len(losses) : ListedBefore(losses, j, i)}) < count

AllAskedNone ==
    \A j \in 0..(Len(iterations) - 1) :
        \/ iterations[j + 1].is_finished
        \/ \E k \in 1..Len(asked) : asked[k].i = j /\ asked[k].ret = None

\* C27: in _get_next_structure a new bracket is created only after every
\* existing unfinished bracket has returned none in the same scan; at most
\* max_iterations brackets are created per call; each new bracket gets index
\* len(iterations) at creation; the sequence ends only in a scan where every
\* unfinished bracket returned none and no creation budget remains
C27_CreateAfterFullScan ==
    [][ /\ Len(iterations') = Len(iterations) + 1 =>
              /\ AllAskedNone
              /\ SubSeq(iterations', 1, Len(iterations)) = iterations
              /\ iterations'[Len(iterations')].iteration - learner_offset
                    = Len(iterations)
              /\ iterations'[Len(iterations')].data = << >>
        /\ ncreated' <= MaxIterations
        /\ (gpc # "ended" /\ gpc' = "ended") =>
              /\ AllAskedNone
              /\ n_iterations = 0 ]_vars

\* C27 witness: the generator has ended with its creation budget used up;
\* the first bracket issued two candidates, the second one at least one
C27_Witness ==
    /\ gpc = "ended"
    /\ ncreated = MaxIterations
    /\ Len(iterations) >= 2
    /\ \E x, y \in issued :
          /\ x.rep = lrepetition /\ y.rep = lrepetition
          /\ x.id[1] = learner_offset /\ y.id[1] = learner_offset + 1
          /\ x.id[2] = 1

\* C28: each pair (c, i) yielded by _get_next_structure has i the lowest index
\* of an unfinished bracket whose get_next_candidate returned non-none in that
\* scan and c that call's result; c belongs to bracket i, brackets with a
\* higher index are not asked in that scan, and finished brackets are never
\* asked
C28_YieldsFirstNonNone ==
    /\ \A k \in 1..Len(asked) : ~asked[k].was_finished
    /\ \A k \in 1..(Len(asked) - 1) :
          asked[k].ret = None /\ asked[k].i < asked[k + 1].i
    /\ gpc = "yielded" =>
          /\ Len(asked) >= 1
          /\ yielded.c # None
          /\ asked[Len(asked)] = [i |-> yielded.i, ret |-> yielded.c,
                                  was_finished |-> FALSE]
          /\ \A j \in 0..(yielded.i - 1) :
                \/ \E k \in 1..Len(asked) : asked[k].i = j
                \/ iterations[j + 1].is_finished
          /\ \E k \in 1..Len(iterations[yielded.i + 1].data) :
                iterations[yielded.i + 1].data[k] = yielded.c

\* C28 witness: a candidate of the second bracket is yielded after the first
\* bracket, unfinished, was asked and returned none
C28_Witness ==
    /\ gpc = "yielded"
    /\ yielded.i = 1
    /\ Len(asked) = 2
    /\ asked[1].i = 0 /\ asked[1].ret = None
    /\ ~iterations[1].is_finished

\* the CandidateIds issued in repetition r
IssuedIn(r) == {x.id : x \in {y \in issued : y.rep = r}}

C31_OptimizeTerminates ==
    /\ <>(gpc = "ended")
    /\ [](ncreated <= MaxIterations)
    /\ [](gpc = "ended" =>
            /\ ncreated = MaxIterations
            /\ Len(iterations) = MaxIterations
            /\ \A j \in 1..Len(iterations) :
                  /\ iterations[j].is_finished
                  /\ iterations[j].num_running = 0
            /\ \A r \in 1..Len(lheap) : lheap[r].results # << >>)
    /\ [][(gpc = "yielded" /\ gpc' # "yielded") =>
            LET last == asked[Len(asked)]
            IN  /\ last.ret = yielded.c
                /\ \E k \in 1..Len(iterations[last.i + 1].data) :
                      iterations[last.i + 1].data[k] = last.ret
                /\ iterations'[last.i + 1].num_running
                      = iterations[last.i + 1].num_running - 1
                /\ lheap'[last.ret].status = "REVIEW"
                /\ Len(lheap'[last.ret].results) = Len(lheap[last.ret].results) + 1
                /\ \A j \in 1..Len(iterations) :
                      j # last.i + 1 => iterations'[j] = iterations[j]]_vars

\* C31 witness: optimize has ended after max_iterations brackets, one of them
\* a resampling bracket that created three candidates, another a halving
\* bracket with two stages
C31_Witness ==
    /\ gpc = "ended"
    /\ Len(iterations) = MaxIterations
    /\ \E j \in 1..Len(iterations) :
          /\ iterations[j].policy = "SR"
          /\ iterations[j].actual_num_candidates = <<2, 2>>
    /\ \E j \in 1..Len(iterations) :
          /\ iterations[j].policy = "SH"
          /\ Len(iterations[j].num_candidates) = 2
    /\ Len(lheap) = 5

\* the _finish_stage calls of the last get_next_candidate number at most
\* (number of stages - stage at the call)
RecursionBounded ==
    log # << >> =>
        /\ Len(log) <= Len(bracket.num_candidates) - (log[1].stage - 1)
        /\ \A i \in 1..Len(log) : log[i].stage = log[1].stage + i - 1

\* C32: every call of get_next_candidate returns either a candidate or none
\* (no exception leaves it), after at most (number of stages - current stage)
\* calls of _finish_stage, also for ladders with a stage of capacity 0 or a
\* stage into which no candidate was promoted
C32_CallReturnsWithinStages ==
    op = "get_next_candidate" =>
        /\ err = "ok"
        /\ ret.ref = None \/ ret.ref \in 1..Len(cands)
        /\ RecursionBounded

\* C33: a candidate created by the bracket has status COMPLETED if and only
\* if the bracket is finished: once the bracket has finished, no candidate it
\* ever issued, whether still in its data map or replaced there, is left in
\* another status, and before that none is COMPLETED
C33_CompletedIffFinished ==
    \A r \in 1..Len(cands) :
        (cands[r].status = "COMPLETED") <=> bracket.is_finished

\* jobs of candidate r that have not called back: the master creates
\* int(budget) jobs each time the candidate is handed out and every job calls
\* back once; where callbacks come one per candidate, the candidate's one job
JobsInFlight(r) ==
    IF r > Len(ran) THEN 0
    ELSE IF late
    THEN SumOver([i \in 1..Len(ran[r]) |-> ran[r][i]], 1..Len(ran[r]))
            - Len(cands[r].results)
    ELSE IF r \in outstanding THEN 1 ELSE 0

\* the candidate get_next_candidate returns was QUEUED when it was picked
\* (after the _finish_stage calls of the same call) or is new
PickedWhileQueued ==
    LET r      == ret'.ref
        before == IF log' # << >> THEN log'[Len(log')].post ELSE cands
    IN  r <= Len(before) => before[r].status = "QUEUED"

\* C34: a bracket never hands out a candidate that is already in flight: the
\* candidate get_next_candidate returns has no job outstanding, was QUEUED
\* when picked (never RUNNING, REVIEW, TERMINATED or COMPLETED), and is
\* returned at most once per stage
C34_NeverHandsOutInFlight ==
    [][ (op' = "get_next_candidate" /\ ret'.ref > 0) =>
            /\ PickedWhileQueued
            /\ Len(ran'[ret'.ref]) <= bracket'.stage + 1
            /\ ret'.ref \notin outstanding
            /\ JobsInFlight(ret'.ref) = 0 ]_vars

\* C35: with get and register_result called one at a time, an engine is
\* constructed once per distinct search space passed to get (between calls
\* the engines built are exactly the cached ones, one per key); a get for a
\* key already present returns the cached instance without constructing; no
\* operation replaces or removes a cached entry
C35_OneEnginePerKey ==
    [][ /\ \A k \in Keys :
              /\ built'[k] <= 1
              /\ cache[k] # 0 => cache'[k] = cache[k]
              /\ built'[k] > built[k] =>
                    \E t \in Threads : ckey[t] = k /\ cpc[t] = "construct"
        /\ \A t \in Threads :
              /\ (cpc[t] = "test" /\ cache[ckey[t]] # 0) =>
                    (cpc'[t] = "return" /\ built' = built /\ cache' = cache)
              /\ (cpc[t] = "return" /\ cpc'[t] = "idle") =>
                    /\ got'[t] # 0
                    /\ got'[t] = cache[ckey[t]]
                    /\ built[ckey[t]] = 1
        /\ NoGetRunning' =>
              \A k \in Keys : built'[k] = IF cache'[k] # 0 THEN 1 ELSE 0 ]_vars

\* C35 witness: both search spaces have their engine, and the second get for
\* the first search space, from another thread, returned the engine the first
\* one built; a register_result call has been routed in between
C35_Witness ==
    /\ NoGetRunning
    /\ \A k \in Keys : built[k] = 1 /\ cache[k] # 0
    /\ ckey[1] = 1 /\ ckey[2] = 1
    /\ got[1] = cache[1] /\ got[2] = cache[1]
    /\ creg.key = 2 /\ \E e \in Engines : routed[e] = 1

\* values the losses are mapped to
TransformedLosses == {0, 2, 3, 4, 10}

\* the strictly increasing maps of the loss values into them; scaling by 2
\* is one
LossTransforms ==
    {f \in [AdvLosses -> TransformedLosses] :
        \A x, y \in AdvLosses : x < y => f[x] < f[y]}

Transformed(f, losses) == [i \in 1..Len(losses) |-> f[losses[i]]]

\* C36: for both advancement policies the advance vector depends only on the
\* order of the losses: the vector computed from the losses after any strictly
\* increasing transformation (scaling by a positive factor among them) equals
\* the vector computed from the losses themselves
C36_AdvanceDependsOnOrderOnly ==
    hpc = "advance" =>
        \A f \in LossTransforms :
            /\ advance_to_next_stage(hin.b, Transformed(f, hin.losses)) = hout
            /\ LET h == [hin.b EXCEPT !.policy = "SH"]
               IN  advance_to_next_stage(h, Transformed(f, hin.losses))
                       = advance_to_next_stage(h, hin.losses)

\* C36 witness: losses 5, 1, 5 with threshold 1 advance the second candidate
\* only, and so do the doubled losses 10, 2, 10
C36_Witness ==
    /\ hpc = "advance"
    /\ hin.losses = <<5, 1, 5>>
    /\ hin.b.num_candidates[2] = 2
    /\ hin.b.min_samples_advance = 1
    /\ <<hin.b.rate_num, hin.b.rate_den>> = <<1, 2>>
    /\ hout = <<FALSE, TRUE, FALSE>>
    /\ [x \in AdvLosses |-> 2 * x] \in LossTransforms
    /\ advance_to_next_stage(hin.b, <<10, 2, 10>>) = hout

\* C37: constructing a RunHistory does not modify the per-bracket record maps
\* it is given: after construction every input record still holds its original
\* absolute time stamps, so a second RunHistory built from the same inputs has
\* the same rebased time stamps as the first
C37_ConstructionKeepsInputs ==
    hpc = "merged" =>
        /\ hout.after = hin.heap
        /\ hout.second = hout.plain

\* C38: get_incumbent_trajectory returns without raising for every run
\* history; when no run is accepted as incumbent (every run has a null loss,
\* for one) the returned trajectory is empty.  (The four lists of return_dict
\* grow together, one point of the model being one entry of each.)
C38_TrajectoryNeverRaises ==
    hpc = "trajectory" =>
        /\ hout.r.err = "ok"
        /\ (\A i \in 1..Len(hout.r.all_runs) : hout.r.all_runs[i].loss = NoLoss)
               => hout.r.points = << >>

\* C39: a completed job that arrives in _result_callback without a
\* configuration is not an error: it is given a default configuration and
\* the bookkeeping steps run for it in order: result logged, appended to its
\* candidate structure and registered with the cache before the bandit
\* learner and the structure generator; all five have run once the callback
\* has returned, unless the bandit learner's register_result raised
C39_MissingConfigGetsDefault ==
    cb.job # 0 /\ cb.config # "sampled" =>
        /\ cb.config = "none" <=> jobs[cb.job] = "callback"
        /\ jobs[cb.job] = "callback" =>
              ~cb.logged /\ ~cb.added /\ ~cb.cache /\ ~cb.bracket /\ ~cb.sg
        /\ jobs[cb.job] # "callback" =>
              cb.config = "default" /\ cb.logged /\ cb.added /\ cb.cache
        /\ (cb.bracket \/ cb.sg) => cb.logged /\ cb.added /\ cb.cache
        /\ cb.sg => cb.bracket
        /\ lock # cb.job /\ ~cb.raised =>
              jobs[cb.job] = "done" /\ cb.bracket /\ cb.sg
        /\ cb.raised => jobs[cb.job] = "failed" /\ cb.cache /\ ~cb.bracket

\* C39 witness: a job that arrived without configuration has left the
\* callback with the default configuration and all five steps done
C39_Witness ==
    /\ cb.job # 0
    /\ cb.config = "default"
    /\ jobs[cb.job] = "done"
    /\ lock = 0
    /\ cb.logged /\ cb.added /\ cb.cache /\ cb.bracket /\ cb.sg
    /\ ~cb.raised

\* the line of results.json that an entry of the loaded history comes from:
\* the last one for its id and budget
LastLine(dir, k, b) ==
    dir.results[CHOOSE i \in 1..Len(dir.results) :
                    /\ dir.results[i].id = k /\ dir.results[i].budget = b
                    /\ \A j \in (i + 1)..Len(dir.results) :
                          ~(dir.results[j].id = k /\ dir.results[j].budget = b)]

\* the (id, budget) pairs a loaded history has a record for
LoadedEntries(data) ==
    {<<k, b>> \in HistIds \X HistBudgets : data[k] # << >> /\ data[k][b].present}

\* C40: after logged_results_to_runhistory, time_ref is the earliest
\* submitted time stamp over all result records, min_budget and max_budget
\* are the extremes of the observed budgets, and every time stamp of every
\* record has been rebased exactly once by subtracting time_ref, so the
\* smallest submitted time stamp in the history is 0 and none is negative
C40_LoadRebasesOnce ==
    hpc = "loaded" /\ hout.err = "ok" =>
        LET lines == {hin.results[i] : i \in 1..Len(hin.results)}
            subs  == {hout.data[e[1]][e[2]].submitted : e \in LoadedEntries(hout.data)}
        IN  /\ \E l \in lines : l.submitted = hout.time_ref
            /\ \A l \in lines : hout.time_ref <= l.submitted
            /\ \E l \in lines : l.budget = hout.min_budget
            /\ \E l \in lines : l.budget = hout.max_budget
            /\ \A l \in lines : hout.min_budget <= l.budget /\ l.budget <= hout.max_budget
            /\ \A e \in LoadedEntries(hout.data) :
                  LET l == LastLine(hin, e[1], e[2])
                  IN  /\ hout.data[e[1]][e[2]].submitted = l.submitted - hout.time_ref
                      /\ hout.data[e[1]][e[2]].finished = l.finished - hout.time_ref
            /\ 0 \in subs
            /\ \A t \in subs : t >= 0

====
